---- MODULE Spec2Model ----
(***************************************************************************)
(* claude-concilium: three MCP servers (mcp-openai, mcp-gemini, mcp-qwen)  *)
(* that wrap a CLI in a child process with a timeout, classify its output  *)
(* and return a tool result; and the Concilium skill, the protocol that    *)
(* walks a fallback chain of these tools per primary agent.                *)
(*                                                                         *)
(* Texts are TLA+ strings: Len, SubSeq and \o act on them character by     *)
(* character, as the JavaScript string operations of the source do.        *)
(***************************************************************************)
EXTENDS Integers, Sequences, FiniteSets, TLC

(***************************************************************************)
(* Bounds of the model.                                                    *)
(***************************************************************************)
\* data chunks one child may write (stdout and stderr together)
MaxChunks == 2
\* largest "timeout" argument (seconds) a request gives explicitly
MaxTimeoutArg == 1
\* how far the clock runs past the last deadline, in steps of StepMs
MaxSlackSteps == 1
\* length of the filler chunk (longer than the tail the rejection message quotes)
FillerLen == 201
\* members of a customised fallback chain
MaxChainLen == 3

(***************************************************************************)
(* JavaScript string operations.                                           *)
(***************************************************************************)
Min(S) == CHOOSE x \in S : \A y \in S : x <= y

\* String.prototype.includes
Includes(s, p) ==
  LET n == Len(p)
      first == SubSeq(p, 1, Min({1, n}))
  IN \E i \in 1..(Len(s) - n + 1) :
       SubSeq(s, i, i + Min({1, n}) - 1) = first /\ SubSeq(s, i, i + n - 1) = p

\* the lower-case form of each upper-case letter
LowerOf ==
  "A" :> "a" @@ "B" :> "b" @@ "C" :> "c" @@ "D" :> "d" @@ "E" :> "e" @@
  "F" :> "f" @@ "G" :> "g" @@ "H" :> "h" @@ "I" :> "i" @@ "J" :> "j" @@
  "K" :> "k" @@ "L" :> "l" @@ "M" :> "m" @@ "N" :> "n" @@ "O" :> "o" @@
  "P" :> "p" @@ "Q" :> "q" @@ "R" :> "r" @@ "S" :> "s" @@ "T" :> "t" @@
  "U" :> "u" @@ "V" :> "v" @@ "W" :> "w" @@ "X" :> "x" @@ "Y" :> "y" @@
  "Z" :> "z"

LowerChar(c) == IF c \in DOMAIN LowerOf THEN LowerOf[c] ELSE c

UpperCase == DOMAIN LowerOf

RECURSIVE toLowerCase(_)
\* String.prototype.toLowerCase, by halves
toLowerCase(s) ==
  IF \A i \in 1..Len(s) : SubSeq(s, i, i) \notin UpperCase THEN s
  ELSE IF Len(s) = 1 THEN LowerChar(s)
  ELSE LET h == Len(s) \div 2
       IN toLowerCase(SubSeq(s, 1, h)) \o toLowerCase(SubSeq(s, h + 1, Len(s)))

\* the upper-case form of each lower-case letter
UpperOf ==
  "a" :> "A" @@ "b" :> "B" @@ "c" :> "C" @@ "d" :> "D" @@ "e" :> "E" @@
  "f" :> "F" @@ "g" :> "G" @@ "h" :> "H" @@ "i" :> "I" @@ "j" :> "J" @@
  "k" :> "K" @@ "l" :> "L" @@ "m" :> "M" @@ "n" :> "N" @@ "o" :> "O" @@
  "p" :> "P" @@ "q" :> "Q" @@ "r" :> "R" @@ "s" :> "S" @@ "t" :> "T" @@
  "u" :> "U" @@ "v" :> "V" @@ "w" :> "W" @@ "x" :> "X" @@ "y" :> "Y" @@
  "z" :> "Z"

UpperChar(c) == IF c \in DOMAIN UpperOf THEN UpperOf[c] ELSE c

RECURSIVE toUpperCase(_)
\* String.prototype.toUpperCase, by halves
toUpperCase(s) ==
  IF Len(s) = 0 THEN s
  ELSE IF Len(s) = 1 THEN UpperChar(s)
  ELSE LET h == Len(s) \div 2
       IN toUpperCase(SubSeq(s, 1, h)) \o toUpperCase(SubSeq(s, h + 1, Len(s)))

IsSpace(c) == c \in {" ", "\n", "\t", "\r"}

\* String.prototype.trim
trim(s) ==
  LET n == Len(s)
      Kept(i) == ~IsSpace(SubSeq(s, i, i))
      first == CHOOSE i \in 1..n : Kept(i) /\ \A j \in 1..(i - 1) : ~Kept(j)
      last == CHOOSE i \in 1..n : Kept(i) /\ \A j \in (i + 1)..n : ~Kept(j)
  IN IF \E i \in 1..n : Kept(i) THEN SubSeq(s, first, last) ELSE ""

RECURSIVE Repeat(_, _)
\* n times the character c, by halves
Repeat(c, n) ==
  IF n = 0 THEN ""
  ELSE IF n = 1 THEN c
  ELSE Repeat(c, n \div 2) \o Repeat(c, n - (n \div 2))

(***************************************************************************)
(* Long output.  A buffer of 10 MiB is not written out: the character Bulk *)
(* in a text stands for a run of BulkLen characters BulkChar, which occurs *)
(* in no pattern, is no white space and ends no line.  length and slice    *)
(* count the run in full; every other operation treats it as one character *)
(* of the text, which is what it does to each character of the run.        *)
(***************************************************************************)
Bulk == "#"

BulkChar == "0"

\* MAX_BUFFER of mcp-gemini
MAX_BUFFER == 10 * 1024 * 1024

BulkLen == MAX_BUFFER

\* the positions of the runs in a text
BulkAt(s) == {i \in 1..Len(s) : SubSeq(s, i, i) = Bulk}

\* String.prototype.length
jsLength(s) == Len(s) + (BulkLen - 1) * Cardinality(BulkAt(s))

\* String.prototype.slice(-n), for n below BulkLen
sliceLast(s, n) ==
  LET tail == IF Len(s) <= n THEN s ELSE SubSeq(s, Len(s) - n + 1, Len(s))
      runs == BulkAt(tail)
  IN IF runs = {} THEN tail
     ELSE LET b == CHOOSE i \in runs : \A j \in runs : j <= i
              rest == SubSeq(tail, b + 1, Len(tail))
          IN Repeat(BulkChar, n - Len(rest)) \o rest

\* String.prototype.startsWith
startsWith(s, p) == Len(s) >= Len(p) /\ SubSeq(s, 1, Len(p)) = p

(***************************************************************************)
(* Error classifiers: one detectError per server.  The result is the       *)
(* object the source returns; NoError stands for null.                     *)
(***************************************************************************)
NoError == [isError |-> FALSE, errorType |-> "null", message |-> ""]

DetectedError(type, msg) == [isError |-> TRUE, errorType |-> type, message |-> msg]

IsLineTerminator(c) == c \in {"\n", "\r"}

\* output.match(/try again at (.+?)[\.\n]/): the capture, or "unknown"
resetDate(output) ==
  LET pre == "try again at "
      \* the capture starting at p ends before the first "." or "\n" after p
      Ends(p) == {q \in (p + 1)..Len(output) : SubSeq(output, q, q) \in {".", "\n"}}
      Matches(i) ==
        LET p == i + Len(pre)
        IN /\ SubSeq(output, i, p - 1) = pre
           /\ p <= Len(output)
           /\ Ends(p) # {}
           /\ \A k \in p..(Min(Ends(p)) - 1) : ~IsLineTerminator(SubSeq(output, k, k))
      starts == {i \in 1..(Len(output) - Len(pre) + 1) : Matches(i)}
  IN IF starts = {} THEN "unknown"
     ELSE LET p == Min(starts) + Len(pre) IN SubSeq(output, p, Min(Ends(p)) - 1)

\* mcp-openai detectError
detectErrorOpenAI(output) ==
  LET Rules(combined) ==
     IF Includes(combined, "usage limit") \/ Includes(combined, "hit your usage limit")
     THEN DetectedError("QUOTA_EXCEEDED",
            "Codex usage limit reached. Credits reset at: " \o resetDate(output)
              \o ". Use a fallback provider.")
     ELSE IF Includes(combined, "not supported when using codex with a chatgpt account")
     THEN DetectedError("MODEL_NOT_SUPPORTED",
            "This model is not available with ChatGPT Plus. Use the default model.")
     ELSE IF Includes(combined, "auth")
             /\ (Includes(combined, "expired") \/ Includes(combined, "login"))
     THEN DetectedError("AUTH_EXPIRED",
            "Codex auth token expired. Run 'codex login' to re-authenticate.")
     ELSE NoError
  IN CHOOSE r \in {Rules(x) : x \in {toLowerCase(output)}} : TRUE

\* a Gemini classifier that names its auth error as mcp-openai does
detectErrorGeminiAuthExpired(output) ==
  LET Rules(text) ==
     IF Includes(text, "quota") \/ Includes(text, "rate limit")
        \/ Includes(text, "resource_exhausted")
     THEN DetectedError("QUOTA_EXCEEDED",
            "Gemini daily quota exceeded. Free tier: 1000 req/day. Try again tomorrow or use a fallback provider.")
     ELSE IF Includes(text, "authentication") \/ Includes(text, "not authenticated")
             \/ Includes(text, "login")
     THEN DetectedError("AUTH_EXPIRED",
            "Gemini not authenticated. Run 'gemini' in terminal to login via Google account.")
     ELSE NoError
  IN CHOOSE r \in {Rules(x) : x \in {toLowerCase(output)}} : TRUE

\* mcp-gemini detectError
detectErrorGemini(output) ==
  LET Rules(text) ==
     IF Includes(text, "quota") \/ Includes(text, "rate limit")
        \/ Includes(text, "resource_exhausted")
     THEN DetectedError("QUOTA_EXCEEDED",
            "Gemini daily quota exceeded. Free tier: 1000 req/day. Try again tomorrow or use a fallback provider.")
     ELSE IF Includes(text, "authentication") \/ Includes(text, "not authenticated")
             \/ Includes(text, "login")
     THEN DetectedError("AUTH_REQUIRED",
            "Gemini not authenticated. Run 'gemini' in terminal to login via Google account.")
     ELSE NoError
  IN CHOOSE r \in {Rules(x) : x \in {toLowerCase(output)}} : TRUE

\* a Qwen classifier that tests the text as it is written
detectErrorQwenCaseSensitive(output) ==
  LET Rules(text) ==
     IF Includes(text, "quota") \/ Includes(text, "rate limit")
        \/ Includes(text, "insufficient_quota")
     THEN DetectedError("QUOTA_EXCEEDED",
            "Qwen API quota exceeded. Check your DashScope account limits.")
     ELSE IF Includes(text, "authentication") \/ Includes(text, "invalid api key")
             \/ Includes(text, "unauthorized")
     THEN DetectedError("AUTH_ERROR",
            "Qwen authentication failed. Run 'qwen login' or set DASHSCOPE_API_KEY env var.")
     ELSE IF Includes(text, "model not found") \/ Includes(text, "model_not_found")
     THEN DetectedError("MODEL_NOT_FOUND",
            "Qwen model not found. Available models: qwen-turbo, qwen-plus, qwen-long.")
     ELSE NoError
  IN CHOOSE r \in {Rules(x) : x \in {output}} : TRUE

\* a Qwen classifier that tests the authentication patterns first
detectErrorQwenAuthFirst(output) ==
  LET Rules(text) ==
     IF Includes(text, "authentication") \/ Includes(text, "invalid api key")
        \/ Includes(text, "unauthorized")
     THEN DetectedError("AUTH_ERROR",
            "Qwen authentication failed. Run 'qwen login' or set DASHSCOPE_API_KEY env var.")
     ELSE IF Includes(text, "quota") \/ Includes(text, "rate limit")
             \/ Includes(text, "insufficient_quota")
     THEN DetectedError("QUOTA_EXCEEDED",
            "Qwen API quota exceeded. Check your DashScope account limits.")
     ELSE IF Includes(text, "model not found") \/ Includes(text, "model_not_found")
     THEN DetectedError("MODEL_NOT_FOUND",
            "Qwen model not found. Available models: qwen-turbo, qwen-plus, qwen-long.")
     ELSE NoError
  IN CHOOSE r \in {Rules(x) : x \in {toLowerCase(output)}} : TRUE

\* mcp-qwen detectError
detectErrorQwen(output) ==
  LET Rules(text) ==
     IF Includes(text, "quota") \/ Includes(text, "rate limit")
        \/ Includes(text, "insufficient_quota")
     THEN DetectedError("QUOTA_EXCEEDED",
            "Qwen API quota exceeded. Check your DashScope account limits.")
     ELSE IF Includes(text, "authentication") \/ Includes(text, "invalid api key")
             \/ Includes(text, "unauthorized")
     THEN DetectedError("AUTH_ERROR",
            "Qwen authentication failed. Run 'qwen login' or set DASHSCOPE_API_KEY env var.")
     ELSE IF Includes(text, "model not found") \/ Includes(text, "model_not_found")
     THEN DetectedError("MODEL_NOT_FOUND",
            "Qwen model not found. Available models: qwen-turbo, qwen-plus, qwen-long.")
     ELSE NoError
  IN CHOOSE r \in {Rules(x) : x \in {toLowerCase(output)}} : TRUE

(***************************************************************************)
(* The tools and the server each belongs to.                               *)
(***************************************************************************)
Tools == {"openai_chat", "openai_review", "gemini_chat", "gemini_analyze", "qwen_chat"}

\* the server that registers the tool
ServerOf(tool) ==
  CASE tool \in {"openai_chat", "openai_review"} -> "openai"
    [] tool \in {"gemini_chat", "gemini_analyze"} -> "gemini"
    [] OTHER -> "qwen"

\* the detectError in scope of the tool's handler
detectError(tool, output) ==
  CASE ServerOf(tool) = "openai" -> detectErrorOpenAI(output)
    [] ServerOf(tool) = "gemini" -> detectErrorGemini(output)
    [] OTHER -> detectErrorQwen(output)

\* an extraction that turns to the file only when stdout is blank
extractResponseStdoutFirst(stdout, outputFileContent) ==
  IF trim(stdout) # "" THEN trim(stdout) ELSE trim(outputFileContent)

\* extractResponse of mcp-openai
extractResponse(stdout, outputFileContent) ==
  IF trim(outputFileContent) # "" THEN trim(outputFileContent)
  ELSE LET \* line k of stdout.split("\n") is stdout[LineStart(k) .. LineEnd(k)]
           nl == {i \in 1..Len(stdout) : SubSeq(stdout, i, i) = "\n"}
           starts == {1} \cup {i + 1 : i \in nl}
           LineEnd(a) == IF \E i \in nl : i >= a
                         THEN Min({i \in nl : i >= a}) - 1 ELSE Len(stdout)
           Line(a) == SubSeq(stdout, a, LineEnd(a))
           marks == {a \in starts : trim(Line(a)) = "codex"}
           \* the loop stops at the first "tokens used" line seen while inResponse
           stops == {a \in starts : /\ marks # {} /\ a > Min(marks)
                                    /\ trim(Line(a)) # "codex"
                                    /\ startsWith(Line(a), "tokens used")}
           last == IF stops = {} THEN Len(stdout) + 2 ELSE Min(stops)
           kept == {a \in starts : /\ marks # {} /\ a > Min(marks) /\ a < last
                                   /\ trim(Line(a)) # "codex"}
           RECURSIVE Join(_)
           Join(S) == IF S = {} THEN ""
                      ELSE LET a == Min(S)
                           IN IF S = {a} THEN Line(a)
                              ELSE Line(a) \o "\n" \o Join(S \ {a})
       IN IF kept # {} THEN trim(Join(kept)) ELSE trim(stdout)

(***************************************************************************)
(* Program constants.                                                      *)
(***************************************************************************)
\* delay of the escalation timer (setTimeout(..., 5000))
GraceMs == 5000

\* the largest delay a Node timer takes, in ms
TIMEOUT_MAX == 2147483647

\* setTimeout(callback, timeout * 1000): the delay the timer is armed with.
\* Node arms 1 ms when the delay is above TIMEOUT_MAX or below 1.
ArmedDelay(sec) ==
  IF sec > TIMEOUT_MAX \div 1000 \/ sec < 1 THEN 1 ELSE sec * 1000

\* tail of the partial output quoted in the rejection message (slice(-200))
PartialTail == 200

\* tail of the raw output quoted in a "No response" result (slice(-300))
OutputTail == 300

\* exitCode the close listener gets when the child was ended by a signal (null)
NullExit == -1

\* exitCode of the close event that follows a failed spawn (-ENOENT)
SpawnFailExit == -2

\* the handler's default for its timeout parameter, in seconds
DefaultTimeout(t) ==
  CASE t = "openai_chat" -> 90
    [] t = "openai_review" -> 120
    [] t = "gemini_chat" -> 90
    [] t = "gemini_analyze" -> 180
    [] OTHER -> 120

\* the executable each server spawns
Executable(t) ==
  CASE ServerOf(t) = "openai" -> "codex"
    [] ServerOf(t) = "gemini" -> "gemini"
    [] OTHER -> "qwen"

\* `${exitCode}` in a template literal
ExitText(code) == IF code = NullExit THEN "null" ELSE ToString(code)

\* the Error a failed spawn emits
SpawnErrorMessage(t) == "spawn " \o Executable(t) \o " ENOENT"

\* the message of the Error the close listener rejects with when killed is set
KilledMessage(t, sec, out, err) ==
  CASE ServerOf(t) = "openai" ->
         "Process killed after " \o ToString(sec) \o "s timeout. Partial output: "
           \o sliceLast(out \o err, PartialTail)
    [] ServerOf(t) = "gemini" ->
         "Gemini killed after " \o ToString(sec) \o "s timeout. Partial: "
           \o sliceLast(out, PartialTail)
    [] OTHER ->
         "Qwen killed after " \o ToString(sec) \o "s timeout. Partial: "
           \o sliceLast(out, PartialTail)

(***************************************************************************)
(* Inputs of the model: what a request and a child can be.                 *)
(***************************************************************************)
\* the clock moves to the next deadline, or by this many ms when none is nearer
StepMs == 200000

\* the "timeout" argument of a request: absent, or a number of seconds
TimeoutArgs == {[given |-> FALSE, sec |-> 1]}
                 \cup {[given |-> TRUE, sec |-> n] : n \in 1..MaxTimeoutArg}

Filler == Repeat("x", FillerLen)

\* chunks a child writes to stdout or stderr
Chunks == {"ok\n", "Usage limit hit: Quota\n", "\n", Filler}

\* chunks of a child that writes a great deal
LongChunks == {Bulk, "ok\n", "Usage limit hit: Quota\n"}

\* what the codex child may leave in the -o file
FileContents == {"from file\n", " \n"}

NoFile == [exists |-> FALSE, content |-> ""]

FileWith(c) == [exists |-> TRUE, content |-> c]

ExitCodes == {0, 1}

(***************************************************************************)
(* State of one server handling one tool call.                             *)
(***************************************************************************)
VARIABLES
  hpc,          \* handler: "idle", "awaiting" (the executor's promise), "done"
  tool,         \* the tool called
  timeoutSec,   \* the handler's timeout, in seconds
  now,          \* ms since the call
  proc,         \* child: "none", "running", "exited", "failed" (spawn error)
  ignoresTerm,  \* the child has a SIGTERM handler that does not exit
  procKilled,   \* proc.killed: a signal was delivered by proc.kill
  signals,      \* signals delivered to the child: <<[sig, at]>>
  killed,       \* the executor's killed flag
  timer,        \* the timeout timer: [st, at]
  killTimer,    \* the escalation timer: [st, at]
  stdout, stderr,
  nChunks,      \* data events so far
  exitCode,     \* the child's exit code
  closeHandled, \* the close listener ran
  errorHandled, \* the error listener ran
  outcome,      \* the executor's promise: [st, message]
  outFile,      \* the -o file of openai_chat
  outputFileContent, \* what the handler read from it
  unlinked,     \* unlink(outputFile) was called
  result,       \* the tool result: [isError, text]
  ret           \* which return statement of the handler produced it

svars == <<hpc, tool, timeoutSec, now, proc, ignoresTerm, procKilled, signals, killed,
           timer, killTimer, stdout, stderr, nChunks, exitCode, closeHandled,
           errorHandled, outcome, outFile, outputFileContent, unlinked, result, ret>>

\* State of one consultation led by the Concilium skill.
VARIABLES
  chain,      \* the fallback chain of each primary
  wstate,     \* each walk: "PENDING", "TRYING", "SUCCEEDED", "EXHAUSTED"
  idx,        \* the member a walk is at, from 0
  inflight,   \* the member was called and has not answered
  invoked,    \* the indices a walk has called, in the order of the calls
  attempts,   \* the attempt log of a walk: <<[agentName, result]>>
  wresult,    \* the terminal result of a walk
  synthesis   \* the responses compared in step 1.3: {[role, outcome]}, {} until then

cvars == <<chain, wstate, idx, inflight, invoked, attempts, wresult, synthesis>>

\* State of a server's classifier, called on its own.
VARIABLES
  ctool,      \* the tool whose handler calls detectError
  ctext,      \* the text it is called on
  calls       \* the calls made: each NotCalled or [text, error]

kvars == <<ctool, ctext, calls>>

\* State of one spawn: what a handler and its executor hand to the child.
VARIABLES
  rpc,         \* "idle", "called" (the handler called the executor), "run"
  rtool,       \* the tool called
  payload,     \* its prompt or instructions argument
  xcall,       \* the executor call: [args, prompt, model, stdin]
  argv,        \* the argument vector of the child, <<>> when none was spawned
  stdinBytes,  \* what was written to the child's stdin
  stdinEnded   \* proc.stdin.end() was called

pvars == <<rpc, rtool, payload, xcall, argv, stdinBytes, stdinEnded>>

\* Concurrent invocations of the executors: the variables each call of
\* runCodex or runGemini declares, and its child.
VARIABLES inv

ivars == <<inv>>

\* The process output behind each answer of a consultation.
VARIABLES produced

fvars == <<produced>>

\* State of one extraction of the response of openai_chat.
VARIABLES
  xstdout,    \* the stdout of the codex child
  xfile,      \* its -o file: [exists, content]
  xresponse   \* [made, read, text]: what the handler read and extracted

xvars == <<xstdout, xfile, xresponse>>

\* State of the handler of one tool run on the same output with each exit code.
VARIABLES
  vrun,       \* the run: [tool, out, err, file]
  verdicts    \* the results returned so far: a set of [code, isError, text]

vvars == <<vrun, verdicts>>

\* State of one run of the smoke test.
VARIABLES
  tnow,       \* ms since the start of the run
  tservers,   \* the servers to test, in order
  tcursor,    \* how many of them main has started testing
  tests,      \* the state of each testServer call started
  allPassed,  \* main's flag
  exitStatus  \* the code main exited with, RunningStatus before

tvars == <<tnow, tservers, tcursor, tests, allPassed, exitStatus>>

nvars == <<xvars, vvars, tvars>>

ovars == <<kvars, pvars, ivars, fvars, nvars>>

vars == <<svars, cvars, ovars>>

Unset == [st |-> "unset", at |-> 0]

Pending(t) == t.st = "pending"

\* clearTimeout: a pending timer never fires; anything else is left as it is
clearTimeout(t) == IF Pending(t) THEN [t EXCEPT !.st = "cleared"] ELSE t

timeoutMs == timeoutSec * 1000

NoResult == [isError |-> FALSE, text |-> ""]

ServerInit ==
  /\ hpc = "idle" /\ tool = "none" /\ timeoutSec = 0 /\ now = 0
  /\ proc = "none" /\ ignoresTerm = FALSE /\ procKilled = FALSE /\ signals = <<>>
  /\ killed = FALSE /\ timer = Unset /\ killTimer = Unset
  /\ stdout = "" /\ stderr = "" /\ nChunks = 0 /\ exitCode = 0
  /\ closeHandled = FALSE /\ errorHandled = FALSE
  /\ outcome = [st |-> "pending", message |-> ""]
  /\ outFile = NoFile /\ outputFileContent = "" /\ unlinked = FALSE
  /\ result = NoResult /\ ret = "none"

Sent(sig) == \E i \in 1..Len(signals) : signals[i].sig = sig

\* proc.kill(sig): delivered while the child's handle is alive, a no-op after
procKill(sig) ==
  IF proc = "running"
  THEN /\ signals' = Append(signals, [sig |-> sig, at |-> now])
       /\ procKilled' = TRUE
       /\ IF sig = "SIGTERM" /\ ~Sent("SIGTERM")
          THEN ignoresTerm' \in BOOLEAN
          ELSE UNCHANGED ignoresTerm
  ELSE UNCHANGED <<signals, procKilled, ignoresTerm>>

(***************************************************************************)
(* The handler up to its await: the executor's promise body, which spawns  *)
(* the child, arms the timeout timer and registers the listeners.          *)
(***************************************************************************)
Call(t, arg, spawned) ==
  /\ hpc = "idle"
  /\ hpc' = "awaiting"
  /\ tool' = t
  /\ timeoutSec' = IF arg.given THEN arg.sec ELSE DefaultTimeout(t)
  /\ proc' = IF spawned THEN "running" ELSE "failed"
  /\ timer' = [st |-> "pending", at |-> now + ArmedDelay(timeoutSec')]
  /\ UNCHANGED <<now, ignoresTerm, procKilled, signals, killed, killTimer, stdout,
                 stderr, nChunks, exitCode, closeHandled, errorHandled, outcome,
                 outFile, unlinked, result, ret>>
  /\ UNCHANGED <<outputFileContent, cvars, ovars>>

\* the callback of the timeout timer
TimerFire ==
  /\ Pending(timer) /\ now >= timer.at
  /\ killed' = TRUE
  /\ procKill("SIGTERM")
  /\ killTimer' = [st |-> "pending", at |-> now + GraceMs]
  /\ timer' = [timer EXCEPT !.st = "fired"]
  /\ UNCHANGED <<hpc, tool, timeoutSec, now, proc, stdout, stderr, nChunks, exitCode,
                 closeHandled, errorHandled, outcome, outFile, unlinked, result, ret>>
  /\ UNCHANGED <<outputFileContent, cvars, ovars>>

\* the callback of the escalation timer: if (!proc.killed) proc.kill("SIGKILL")
KillTimerFire ==
  /\ Pending(killTimer) /\ now >= killTimer.at
  /\ IF ~procKilled THEN procKill("SIGKILL")
     ELSE UNCHANGED <<signals, procKilled, ignoresTerm>>
  /\ killTimer' = [killTimer EXCEPT !.st = "fired"]
  /\ UNCHANGED <<hpc, tool, timeoutSec, now, proc, killed, timer, stdout, stderr,
                 nChunks, exitCode, closeHandled, errorHandled, outcome, outFile,
                 unlinked, result, ret>>
  /\ UNCHANGED <<outputFileContent, cvars, ovars>>

\* the buffer check of mcp-gemini's data listeners
OverCap(buf) == ServerOf(tool) = "gemini" /\ jsLength(buf) > MAX_BUFFER

\* a stdout listener that puts the newest chunk first
StdoutDataPrepend(chunk) ==
  /\ proc \in {"running", "exited"} /\ ~closeHandled
  /\ nChunks < MaxChunks
  /\ nChunks' = nChunks + 1
  /\ stdout' = chunk \o stdout
  /\ IF OverCap(stdout')
     THEN killed' = TRUE /\ procKill("SIGTERM")
     ELSE UNCHANGED <<killed, signals, procKilled, ignoresTerm>>
  /\ UNCHANGED <<hpc, tool, timeoutSec, now, proc, timer, killTimer, stderr, exitCode,
                 closeHandled, errorHandled, outcome, outFile, unlinked, result, ret>>
  /\ UNCHANGED <<outputFileContent, cvars, ovars>>

\* proc.stdout.on("data")
StdoutData(chunk) ==
  /\ proc \in {"running", "exited"} /\ ~closeHandled
  /\ nChunks < MaxChunks
  /\ nChunks' = nChunks + 1
  /\ stdout' = stdout \o chunk
  /\ IF OverCap(stdout')
     THEN killed' = TRUE /\ procKill("SIGTERM")
     ELSE UNCHANGED <<killed, signals, procKilled, ignoresTerm>>
  /\ UNCHANGED <<hpc, tool, timeoutSec, now, proc, timer, killTimer, stderr, exitCode,
                 closeHandled, errorHandled, outcome, outFile, unlinked, result, ret>>
  /\ UNCHANGED <<outputFileContent, cvars, ovars>>

\* proc.stderr.on("data")
StderrData(chunk) ==
  /\ proc \in {"running", "exited"} /\ ~closeHandled
  /\ nChunks < MaxChunks
  /\ nChunks' = nChunks + 1
  /\ stderr' = stderr \o chunk
  /\ IF OverCap(stderr')
     THEN killed' = TRUE /\ procKill("SIGTERM")
     ELSE UNCHANGED <<killed, signals, procKilled, ignoresTerm>>
  /\ UNCHANGED <<hpc, tool, timeoutSec, now, proc, timer, killTimer, stdout, exitCode,
                 closeHandled, errorHandled, outcome, outFile, unlinked, result, ret>>
  /\ UNCHANGED <<outputFileContent, cvars, ovars>>

\* the child was sent a signal that ends it
MustExit ==
  /\ proc = "running"
  /\ Sent("SIGKILL") \/ (Sent("SIGTERM") /\ ~ignoresTerm)

\* the child process ends: by itself with a code, or by a signal (code null);
\* the codex child of openai_chat may have written its -o file
ChildExit(code, file) ==
  /\ proc = "running"
  /\ code = NullExit => MustExit
  /\ file.exists => tool = "openai_chat"
  /\ proc' = "exited"
  /\ exitCode' = code
  /\ outFile' = file
  /\ UNCHANGED <<hpc, tool, timeoutSec, now, ignoresTerm, procKilled, signals, killed,
                 timer, killTimer, stdout, stderr, nChunks, closeHandled, errorHandled,
                 outcome, unlinked, result, ret>>
  /\ UNCHANGED <<outputFileContent, cvars, ovars>>

\* a completion that every call overwrites
SettleEveryCall(st, msg) == outcome' = [st |-> st, message |-> msg]

\* resolve or reject: only the first call settles the promise
Settle(st, msg) ==
  outcome' = IF outcome.st = "pending" THEN [st |-> st, message |-> msg] ELSE outcome

\* clearTimeout(killTimer) is in mcp-gemini only; the other servers keep no
\* reference to the escalation timer
clearKillTimer ==
  killTimer' = IF ServerOf(tool) = "gemini" THEN clearTimeout(killTimer) ELSE killTimer

\* a close listener that takes a child that exited with code 0 as a completed run
OnCloseTrustsExit ==
  /\ ~closeHandled
  /\ \/ proc = "exited" /\ UNCHANGED exitCode
     \/ proc = "failed" /\ errorHandled /\ exitCode' = SpawnFailExit
  /\ closeHandled' = TRUE
  /\ timer' = clearTimeout(timer)
  /\ clearKillTimer
  /\ IF killed /\ exitCode' # 0
     THEN Settle("rejected", KilledMessage(tool, timeoutSec, stdout, stderr))
     ELSE Settle("resolved", "")
  /\ UNCHANGED <<hpc, tool, timeoutSec, now, proc, ignoresTerm, procKilled, signals,
                 killed, stdout, stderr, nChunks, errorHandled, outFile, unlinked,
                 result, ret>>
  /\ UNCHANGED <<outputFileContent, cvars, ovars>>

\* proc.on("close"): after the child ended, or after a failed spawn's error
OnClose ==
  /\ ~closeHandled
  /\ \/ proc = "exited" /\ UNCHANGED exitCode
     \/ proc = "failed" /\ errorHandled /\ exitCode' = SpawnFailExit
  /\ closeHandled' = TRUE
  /\ timer' = clearTimeout(timer)
  /\ clearKillTimer
  /\ IF killed
     THEN Settle("rejected", KilledMessage(tool, timeoutSec, stdout, stderr))
     ELSE Settle("resolved", "")
  /\ UNCHANGED <<hpc, tool, timeoutSec, now, proc, ignoresTerm, procKilled, signals,
                 killed, stdout, stderr, nChunks, errorHandled, outFile, unlinked,
                 result, ret>>
  /\ UNCHANGED <<outputFileContent, cvars, ovars>>

\* proc.on("error"): the spawn failed
OnError ==
  /\ proc = "failed" /\ ~errorHandled
  /\ errorHandled' = TRUE
  /\ timer' = clearTimeout(timer)
  /\ clearKillTimer
  /\ Settle("rejected", SpawnErrorMessage(tool))
  /\ UNCHANGED <<hpc, tool, timeoutSec, now, proc, ignoresTerm, procKilled, signals,
                 killed, stdout, stderr, nChunks, exitCode, closeHandled, outFile,
                 unlinked, result, ret>>
  /\ UNCHANGED <<outputFileContent, cvars, ovars>>

(***************************************************************************)
(* The handler after its await.                                            *)
(***************************************************************************)
Returned(isErr, text, stmt) == [isError |-> isErr, text |-> text, ret |-> stmt]

\* a try block that returns whatever the run printed, without the empty check
AfterResolveNoEmptyCheck(t, out, err, code, fileContent) ==
  LET Try(error) ==
        IF error.isError THEN Returned(TRUE, error.message, "detected")
        ELSE Returned(FALSE, trim(out), "ok")
  IN CHOOSE r \in {Try(x) : x \in {detectError(t, out \o err)}} : TRUE

\* a try block that tests for an empty response before it classifies
AfterResolveEmptyFirst(t, out, err, code, fileContent) ==
  LET combined == out \o err
      response == CASE t = "openai_chat" -> extractResponse(out, fileContent)
                    [] t = "openai_review" ->
                         IF trim(combined) # "" THEN trim(combined) ELSE "No review output"
                    [] OTHER -> trim(out)
      noResponse == CASE ServerOf(t) = "openai" ->
                           "No response from Codex. Exit code: " \o ExitText(code)
                             \o ". Output: " \o sliceLast(combined, OutputTail)
                      [] ServerOf(t) = "gemini" ->
                           "No response from Gemini. Exit: " \o ExitText(code)
                             \o ". Stderr: " \o sliceLast(err, OutputTail)
                      [] OTHER ->
                           "No response from Qwen. Exit: " \o ExitText(code)
                             \o ". Stderr: " \o sliceLast(err, OutputTail)
      Try(error) ==
        IF error.isError THEN Returned(TRUE, error.message, "detected")
        ELSE Returned(FALSE, response, "ok")
      Reply(text) ==
        IF text = "" THEN Returned(TRUE, noResponse, "no_response")
        ELSE CHOOSE r \in {Try(x) : x \in {detectError(t, combined)}} : TRUE
  IN CHOOSE r \in {Reply(x) : x \in {response}} : TRUE

\* a try block that classifies what the run wrote to stderr only
AfterResolveClassifiesStderr(t, out, err, code, fileContent) ==
  LET combined == out \o err
      response == CASE t = "openai_chat" -> extractResponse(out, fileContent)
                    [] t = "openai_review" ->
                         IF trim(combined) # "" THEN trim(combined) ELSE "No review output"
                    [] OTHER -> trim(out)
      Reply(text) ==
        IF text = "" THEN Returned(TRUE, "No response. Exit: " \o ExitText(code), "no_response")
        ELSE Returned(FALSE, text, "ok")
      Try(error) ==
        IF error.isError THEN Returned(TRUE, error.message, "detected")
        ELSE CHOOSE r \in {Reply(x) : x \in {response}} : TRUE
  IN CHOOSE r \in {Try(x) : x \in {detectError(t, err)}} : TRUE

\* a try block that takes a non-zero exit code as a failure
AfterResolveFailsOnExit(t, out, err, code, fileContent) ==
  LET combined == out \o err
      response == CASE t = "openai_chat" -> extractResponse(out, fileContent)
                    [] t = "openai_review" ->
                         IF trim(combined) # "" THEN trim(combined) ELSE "No review output"
                    [] OTHER -> trim(out)
      Reply(text) ==
        IF text = "" \/ code # 0
        THEN Returned(TRUE, "No response. Exit: " \o ExitText(code), "no_response")
        ELSE Returned(FALSE, text, "ok")
      Try(error) ==
        IF error.isError THEN Returned(TRUE, error.message, "detected")
        ELSE CHOOSE r \in {Reply(x) : x \in {response}} : TRUE
  IN CHOOSE r \in {Try(x) : x \in {detectError(t, combined)}} : TRUE

\* the try block after the executor resolved {stdout, stderr, exitCode}
AfterResolve(t, out, err, code, fileContent) ==
  LET combined == out \o err
      response == CASE t = "openai_chat" -> extractResponse(out, fileContent)
                    [] t = "openai_review" ->
                         IF trim(combined) # "" THEN trim(combined) ELSE "No review output"
                    [] OTHER -> trim(out)
      noResponse == CASE ServerOf(t) = "openai" ->
                           "No response from Codex. Exit code: " \o ExitText(code)
                             \o ". Output: " \o sliceLast(combined, OutputTail)
                      [] ServerOf(t) = "gemini" ->
                           "No response from Gemini. Exit: " \o ExitText(code)
                             \o ". Stderr: " \o sliceLast(err, OutputTail)
                      [] OTHER ->
                           "No response from Qwen. Exit: " \o ExitText(code)
                             \o ". Stderr: " \o sliceLast(err, OutputTail)
      Reply(text) ==
        IF text = "" THEN Returned(TRUE, noResponse, "no_response")
        ELSE Returned(FALSE, text, "ok")
      Try(error) ==
        IF error.isError THEN Returned(TRUE, error.message, "detected")
        ELSE CHOOSE r \in {Reply(x) : x \in {response}} : TRUE
  IN CHOOSE r \in {Try(x) : x \in {detectError(t, combined)}} : TRUE

\* the prefix of the handler's generic error text
ErrorPrefix(t) ==
  CASE t = "openai_chat" -> "Codex error: "
    [] t = "openai_review" -> "Codex review error: "
    [] t = "gemini_chat" -> "Gemini error: "
    [] t = "gemini_analyze" -> "Gemini analyze error: "
    [] OTHER -> "Qwen error: "

\* a catch block that does not classify the message
AfterRejectUnclassified(t, message) ==
  Returned(TRUE, ErrorPrefix(t) \o message, "catch_generic")

\* a catch block that drops the message of what it does not recognise
AfterRejectDropsMessage(t, message) ==
  LET Catch(knownError) ==
        IF knownError.isError THEN Returned(TRUE, knownError.message, "catch_known")
        ELSE Returned(TRUE, ErrorPrefix(t) \o "unknown error", "catch_generic")
  IN CHOOSE r \in {Catch(x) : x \in {detectError(t, message)}} : TRUE

\* a catch block that rethrows what it does not recognise
AfterRejectRethrow(t, message) ==
  LET Catch(knownError) ==
        IF knownError.isError THEN Returned(TRUE, knownError.message, "catch_known")
        ELSE Returned(FALSE, "", "thrown")
  IN CHOOSE r \in {Catch(x) : x \in {detectError(t, message)}} : TRUE

\* the catch block: the executor rejected with an Error of this message
AfterReject(t, message) ==
  LET Catch(knownError) ==
        IF knownError.isError THEN Returned(TRUE, knownError.message, "catch_known")
        ELSE Returned(TRUE, ErrorPrefix(t) \o message, "catch_generic")
  IN CHOOSE r \in {Catch(x) : x \in {detectError(t, message)}} : TRUE

\* the return statements of a handler
ReturnStatements == {"detected", "no_response", "ok", "catch_known", "catch_generic"}

\* an openai_chat that forgets the -o file when the executor rejects
UnlinkOnPathTryOnly(stmt) == stmt \in {"detected", "no_response", "ok"}

\* openai_chat: the paths on which unlink(outputFile) runs before the return
UnlinkOnPath(stmt) ==
  \/ stmt = "detected"
  \/ stmt \in {"no_response", "ok"}
  \/ stmt \in {"catch_known", "catch_generic"}

\* the handler resumes once the executor's promise is settled, and returns;
\* openai_chat reads and unlinks its -o file on the way
Resume ==
  /\ hpc = "awaiting" /\ outcome.st # "pending"
  /\ LET \* readFile is reached only past the detectError check of the try block
         reads == /\ tool = "openai_chat" /\ outcome.st = "resolved"
                  /\ outFile.exists
                  /\ ~detectError(tool, stdout \o stderr).isError
     IN \E content \in {IF reads THEN outFile.content ELSE ""} :
          \E r \in {IF outcome.st = "resolved"
                     THEN AfterResolve(tool, stdout, stderr, exitCode, content)
                     ELSE AfterReject(tool, outcome.message)} :
            /\ outputFileContent' = content
            /\ result' = [isError |-> r.isError, text |-> r.text]
            /\ ret' = r.ret
            /\ IF tool = "openai_chat" /\ UnlinkOnPath(r.ret)
               THEN outFile' = NoFile /\ unlinked' = TRUE
               ELSE UNCHANGED <<outFile, unlinked>>
  /\ hpc' = "done"
  /\ UNCHANGED <<tool, timeoutSec, now, proc, ignoresTerm, procKilled, signals, killed,
                 timer, killTimer, stdout, stderr, nChunks, exitCode, closeHandled,
                 errorHandled, outcome>>
  /\ UNCHANGED <<cvars, ovars>>

(***************************************************************************)
(* Time.  The clock stands still while something is due: a timer that has  *)
(* expired, an event of a child that has ended, a child that was sent a    *)
(* signal that ends it, a settled promise the handler awaits.              *)
(***************************************************************************)
Due ==
  \/ Pending(timer) /\ now >= timer.at
  \/ Pending(killTimer) /\ now >= killTimer.at
  \/ proc = "exited" /\ ~closeHandled
  \/ proc = "failed" /\ ~(errorHandled /\ closeHandled)
  \/ MustExit
  \/ hpc = "awaiting" /\ outcome.st # "pending"

Deadlines == {t.at : t \in {x \in {timer, killTimer} : Pending(x)}}

Horizon == timeoutMs + GraceMs + MaxSlackSteps * StepMs

\* time is followed while a timer is pending or the child is alive
Tick ==
  /\ hpc # "idle" /\ ~Due
  /\ Deadlines # {} \/ proc = "running"
  /\ now < Horizon
  /\ now' = Min({now + StepMs} \cup Deadlines)
  /\ UNCHANGED <<hpc, tool, timeoutSec, proc, ignoresTerm, procKilled, signals, killed,
                 timer, killTimer, stdout, stderr, nChunks, exitCode, closeHandled,
                 errorHandled, outcome, outFile, unlinked, result, ret>>
  /\ UNCHANGED <<outputFileContent, cvars, ovars>>

ServerNext ==
  \/ \E t \in Tools, arg \in TimeoutArgs, spawned \in BOOLEAN : Call(t, arg, spawned)
  \/ TimerFire
  \/ KillTimerFire
  \/ \E c \in Chunks : StdoutData(c)
  \/ \E c \in Chunks : StderrData(c)
  \/ \E code \in ExitCodes \cup {NullExit},
        file \in {NoFile} \cup {FileWith(c) : c \in FileContents} : ChildExit(code, file)
  \/ OnClose
  \/ OnError
  \/ Resume
  \/ Tick

\* the "timeout" argument over the range of z.number(): absent, a second,
\* and 24 days 20 hours 31 minutes 24 seconds
WideTimeoutArgs ==
  {[given |-> FALSE, sec |-> 1]}
    \cup {[given |-> TRUE, sec |-> n] : n \in {1, 2147484}}

\* time passes until the next timer is due
Elapse ==
  /\ hpc # "idle" /\ ~Due
  /\ Deadlines # {}
  /\ now' = Min(Deadlines)
  /\ UNCHANGED <<hpc, tool, timeoutSec, proc, ignoresTerm, procKilled, signals, killed,
                 timer, killTimer, stdout, stderr, nChunks, exitCode, closeHandled,
                 errorHandled, outcome, outFile, unlinked, result, ret>>
  /\ UNCHANGED <<outputFileContent, cvars, ovars>>

\* the same server, called with any number as its timeout
TimeoutNext ==
  \/ \E t \in Tools, arg \in WideTimeoutArgs, spawned \in BOOLEAN : Call(t, arg, spawned)
  \/ TimerFire
  \/ KillTimerFire
  \/ \E code \in ExitCodes \cup {NullExit} : ChildExit(code, NoFile)
  \/ OnClose
  \/ OnError
  \/ Resume
  \/ Elapse

\* the same server, with a child that writes a great deal
CapNext ==
  \/ \E t \in Tools, arg \in TimeoutArgs, spawned \in BOOLEAN : Call(t, arg, spawned)
  \/ TimerFire
  \/ KillTimerFire
  \/ \E c \in LongChunks : StdoutData(c)
  \/ \E c \in LongChunks : StderrData(c)
  \/ \E code \in ExitCodes \cup {NullExit},
        file \in {NoFile} \cup {FileWith(c) : c \in FileContents} : ChildExit(code, file)
  \/ OnClose
  \/ OnError
  \/ Resume
  \/ Tick

(***************************************************************************)
(* The Concilium skill: the protocol the orchestrator follows.  Each       *)
(* primary agent heads a fallback chain of tools; the chains of the two    *)
(* primaries are walked in parallel and their responses compared.          *)
(***************************************************************************)
\* the primary agents, run in parallel
Primaries == {"openai_chat", "gemini_chat"}

\* the tools a chain falls back to, in the order of the default chain, and the
\* provider a customised chain adds
DefaultFallbacks == <<"qwen_chat", "chat_completion">>

Fallbacks == {"qwen_chat", "chat_completion", "yourllm_chat"}

NoRepeat(q) == \A i, j \in 1..Len(q) : i # j => q[i] # q[j]

\* the chains a skill file can define for a primary: the primary, then fallbacks
ChainsOf(primary) ==
  {<<primary>> \o f : f \in {q \in UNION {[1..n -> Fallbacks] : n \in 0..(MaxChainLen - 1)} :
                              NoRepeat(q)}}

DefaultChain(primary) == <<primary>> \o DefaultFallbacks

\* what a tool call returns to the orchestrator
Responses ==
  {[isError |-> FALSE, text |-> "LGTM"],
   [isError |-> TRUE, text |-> "QUOTA_EXCEEDED"],
   [isError |-> TRUE, text |-> "killed after 90s timeout"]}

Terminal == {"SUCCEEDED", "EXHAUSTED"}

ChainInit ==
  /\ chain \in {c \in [Primaries -> UNION {ChainsOf(p) : p \in Primaries}] :
                  \A p \in Primaries : c[p] \in ChainsOf(p)}
  /\ wstate = [p \in Primaries |-> "PENDING"]
  /\ idx = [p \in Primaries |-> 0]
  /\ inflight = [p \in Primaries |-> FALSE]
  /\ invoked = [p \in Primaries |-> <<>>]
  /\ attempts = [p \in Primaries |-> <<>>]
  /\ wresult = [p \in Primaries |-> NoResult]
  /\ synthesis = {}

\* a walk that falls back whatever the response
IsFailureAlways(resp) == TRUE

\* "on QUOTA/error": the response that makes the orchestrator fall back
IsFailure(resp) == resp.isError

\* a walk that retries the member that failed
NextMemberRetry(i) == i

\* a walk that skips a member
NextMemberSkip(i) == i + 2

\* a walk that starts its chain over after a failure
NextMemberStartOver(i) == 0

\* the member tried after member i failed: the next one, never the same again
NextMember(i) == i + 1

\* a walk that gives up before the last member
HasMemberButLast(c, i) == i + 1 < Len(c)

\* a walk that gives up at the first failure
HasMemberNever(c, i) == FALSE

\* the chain still has a member at index i
HasMember(c, i) == i < Len(c)

\* a ChainAttempt is appended to the walk's log
AppendAttempt(log, agent, resp) == Append(log, [agentName |-> agent, result |-> resp])

\* the result of a walk whose members all failed: the last member's failure
ExhaustedResult(log) == log[Len(log)].result

\* an orchestrator that calls a member while the previous call is unanswered
InvokeSpeculative(p) ==
  /\ wstate[p] \in {"PENDING", "TRYING"}
  /\ wstate' = [wstate EXCEPT ![p] = "TRYING"]
  /\ inflight' = [inflight EXCEPT ![p] = TRUE]
  /\ invoked' = [invoked EXCEPT ![p] = Append(@, idx[p])]
  /\ UNCHANGED <<chain, idx, attempts, wresult, synthesis>>
  /\ UNCHANGED <<svars, ovars>>

\* the orchestrator calls the member its walk is at
Invoke(p) ==
  /\ wstate[p] \in {"PENDING", "TRYING"} /\ ~inflight[p]
  /\ wstate' = [wstate EXCEPT ![p] = "TRYING"]
  /\ inflight' = [inflight EXCEPT ![p] = TRUE]
  /\ invoked' = [invoked EXCEPT ![p] = Append(@, idx[p])]
  /\ UNCHANGED <<chain, idx, attempts, wresult, synthesis>>
  /\ UNCHANGED <<svars, ovars>>

\* an orchestrator that abandons the other walks when one is exhausted
RespondCancelsOthers(p, resp) ==
  /\ inflight[p]
  /\ attempts' = [attempts EXCEPT ![p] = AppendAttempt(@, chain[p][idx[p] + 1], resp)]
  /\ IF ~IsFailure(resp)
     THEN /\ wstate' = [wstate EXCEPT ![p] = "SUCCEEDED"]
          /\ wresult' = [wresult EXCEPT ![p] = resp]
          /\ inflight' = [inflight EXCEPT ![p] = FALSE]
          /\ UNCHANGED idx
     ELSE IF HasMember(chain[p], NextMember(idx[p]))
     THEN /\ idx' = [idx EXCEPT ![p] = NextMember(idx[p])]
          /\ inflight' = [inflight EXCEPT ![p] = FALSE]
          /\ UNCHANGED <<wstate, wresult>>
     ELSE /\ wstate' = [q \in Primaries |->
                          IF wstate[q] = "SUCCEEDED" THEN wstate[q] ELSE "EXHAUSTED"]
          /\ wresult' = [q \in Primaries |->
                           IF wstate[q] \in Terminal THEN wresult[q]
                           ELSE ExhaustedResult(attempts'[p])]
          /\ inflight' = [q \in Primaries |-> FALSE]
          /\ UNCHANGED idx
  /\ UNCHANGED <<chain, invoked, synthesis>>
  /\ UNCHANGED <<svars, ovars>>

\* the member answers: a success ends the walk, a failure moves it to the next
\* member, or ends it when there is none
Answer(p, resp) ==
  /\ inflight[p]
  /\ inflight' = [inflight EXCEPT ![p] = FALSE]
  /\ attempts' = [attempts EXCEPT ![p] = AppendAttempt(@, chain[p][idx[p] + 1], resp)]
  /\ IF ~IsFailure(resp)
     THEN /\ wstate' = [wstate EXCEPT ![p] = "SUCCEEDED"]
          /\ wresult' = [wresult EXCEPT ![p] = resp]
          /\ UNCHANGED idx
     ELSE IF HasMember(chain[p], NextMember(idx[p]))
     THEN /\ idx' = [idx EXCEPT ![p] = NextMember(idx[p])]
          /\ UNCHANGED <<wstate, wresult>>
     ELSE /\ wstate' = [wstate EXCEPT ![p] = "EXHAUSTED"]
          /\ wresult' = [wresult EXCEPT ![p] = ExhaustedResult(attempts'[p])]
          /\ UNCHANGED idx
  /\ UNCHANGED <<chain, invoked, synthesis>>

\* the answer of a member seen by its response alone
Respond(p, resp) ==
  /\ Answer(p, resp)
  /\ UNCHANGED <<svars, ovars>>

\* a comparison that starts as soon as one walk has ended
AnyResolved == \E p \in Primaries : wstate[p] \in Terminal

\* every walk has ended: the responses can be compared
AllResolved == \A p \in Primaries : wstate[p] \in Terminal

\* step 1.3: compare the responses of the primaries' walks
Synthesize ==
  /\ synthesis = {}
  /\ AllResolved
  /\ synthesis' = {[role |-> p, outcome |-> wresult[p]] :
                      p \in {q \in Primaries : wstate[q] \in Terminal}}
  /\ UNCHANGED <<chain, wstate, idx, inflight, invoked, attempts, wresult>>
  /\ UNCHANGED <<svars, ovars>>

ChainNext ==
  \/ \E p \in Primaries : Invoke(p)
  \/ \E p \in Primaries, resp \in Responses : Respond(p, resp)
  \/ Synthesize

\* the servers alone: no consultation is under way
ChainIdle ==
  /\ chain = [p \in Primaries |-> DefaultChain(p)]
  /\ wstate = [p \in Primaries |-> "PENDING"]
  /\ idx = [p \in Primaries |-> 0]
  /\ inflight = [p \in Primaries |-> FALSE]
  /\ invoked = [p \in Primaries |-> <<>>]
  /\ attempts = [p \in Primaries |-> <<>>]
  /\ wresult = [p \in Primaries |-> NoResult]
  /\ synthesis = {}

(***************************************************************************)
(* The classifiers on their own: detectError of one server is called on a  *)
(* text, on the same text again, on the text in another letter case, and,  *)
(* at any moment in between, another server's detectError on another text. *)
(***************************************************************************)
\* most words a text is made of
MaxWords == 2

\* the words of a CLI's output: the patterns of the three classifiers, the
\* patterns of the documented tables, and words no classifier knows
WordList ==
  <<"ok", "usage limit", "not supported when using codex",
    "not supported when using codex with a chatgpt account",
    "auth", "expired", "login", "quota", "rate limit", "resource_exhausted",
    "authentication", "not authenticated", "invalid api key", "unauthorized",
    "model not found", "model_not_found", "try again at 5pm.">>

RECURSIVE JoinWords(_)
\* the words at the indices S, in the order of the list, one per line
JoinWords(S) ==
  IF S = {} THEN ""
  ELSE LET a == Min(S) IN WordList[a] \o "\n" \o JoinWords(S \ {a})

WordSets(n) ==
  IF n = 0 THEN {{}}
  ELSE {S \in SUBSET (1..Len(WordList)) : Cardinality(S) <= n}

\* the texts a classifier is called on
Texts == {JoinWords(S) : S \in WordSets(MaxWords)}

\* the tools in whose handler each server's detectError is called
ClassifierTools == {"openai_chat", "gemini_chat", "qwen_chat"}

\* texts that differ from the text only in letter case
CaseVariants(text) ==
  {toUpperCase(text),
   IF text = "" THEN "" ELSE toUpperCase(SubSeq(text, 1, 1)) \o SubSeq(text, 2, Len(text))}

\* the text of the other classification
OtherText == "Quota exceeded, please login\n"

CallIds == {"first", "again", "variant", "other"}

NotCalled == [made |-> FALSE, tool |-> "none", text |-> "", error |-> NoError]

CallOf(t, text, error) == [made |-> TRUE, tool |-> t, text |-> text, error |-> error]

ClassifierIdle ==
  /\ ctool = "none" /\ ctext = ""
  /\ calls = [id \in CallIds |-> NotCalled]

ClassifierInit ==
  /\ ctool \in ClassifierTools /\ ctext \in Texts
  /\ calls = [id \in CallIds |-> NotCalled]

\* a classifier that answers with what it last found, whatever the text
ClassifyRemembering(id) ==
  /\ id \in {"first", "again"} /\ ~calls[id].made
  /\ calls' = [calls EXCEPT ![id] =
                 IF calls["other"].made THEN CallOf(ctool, ctext, calls["other"].error)
                 ELSE CallOf(ctool, ctext, detectError(ctool, ctext))]
  /\ UNCHANGED <<ctool, ctext>>
  /\ UNCHANGED <<svars, cvars, pvars, ivars, fvars, nvars>>

\* detectError(text), a first and a second time
Classify(id) ==
  /\ id \in {"first", "again"} /\ ~calls[id].made
  /\ calls' = [calls EXCEPT ![id] = CallOf(ctool, ctext, detectError(ctool, ctext))]
  /\ UNCHANGED <<ctool, ctext>>
  /\ UNCHANGED <<svars, cvars, pvars, ivars, fvars, nvars>>

\* detectError on the text in another letter case
ClassifyVariant(v) ==
  /\ ~calls["variant"].made
  /\ calls' = [calls EXCEPT !["variant"] = CallOf(ctool, v, detectError(ctool, v))]
  /\ UNCHANGED <<ctool, ctext>>
  /\ UNCHANGED <<svars, cvars, pvars, ivars, fvars, nvars>>

\* another handler classifies another text
ClassifyOther(t) ==
  /\ ~calls["other"].made
  /\ calls' = [calls EXCEPT !["other"] = CallOf(t, OtherText, detectError(t, OtherText))]
  /\ UNCHANGED <<ctool, ctext>>
  /\ UNCHANGED <<svars, cvars, pvars, ivars, fvars, nvars>>

ClassifierNext ==
  \/ \E id \in {"first", "again"} : Classify(id)
  \/ \E v \in CaseVariants(ctext) : ClassifyVariant(v)
  \/ \E t \in ClassifierTools : ClassifyOther(t)

(***************************************************************************)
(* The spawn: a handler builds its arguments and calls its executor, which *)
(* spawns the CLI with an argument vector and feeds and closes its stdin.  *)
(***************************************************************************)
\* an optional parameter that was not given
Undefined == [given |-> FALSE, v |-> ""]

Some(v) == [given |-> TRUE, v |-> v]

\* JavaScript truthiness of an optional string
Truthy(o) == o.given /\ o.v # ""

\* prompts and instructions, with what a shell would interpret
Prompts ==
  {"", "hi", "two words", "x; rm -rf ~ && echo $(id)", "it's \"quoted\" $HOME",
   "-m other --yolo", "line one\nline two"}

\* the model parameter
Models == {Undefined, Some("qwen-turbo"), Some("qwen plus")}

\* the base and commit parameters of openai_review
Revisions == {Undefined, Some("main branch")}

\* tempFile("codex-chat")
OutputFilePath == "/tmp/codex-chat-0a1b2c3d.txt"

NoCall == [args |-> <<>>, prompt |-> "", model |-> Undefined, stdin |-> Undefined]

SpawnIdle ==
  /\ rpc = "idle" /\ rtool = "none" /\ payload = Undefined /\ xcall = NoCall
  /\ argv = <<>> /\ stdinBytes = "" /\ stdinEnded = FALSE

\* args.push(flag, value) when value is truthy
PushIf(o, flag) == IF Truthy(o) THEN <<flag, o.v>> ELSE <<>>

\* the handler up to its call of the executor
Request(t, p, model, uncommitted, base, commit) ==
  /\ rpc = "idle"
  /\ t # "openai_review" => p.given /\ uncommitted /\ ~base.given /\ ~commit.given
  /\ t = "openai_review" => ~model.given
  /\ rpc' = "called" /\ rtool' = t /\ payload' = p
  /\ xcall' =
       CASE t = "openai_chat" ->
              [args |-> <<"exec", "--sandbox", "read-only", "--ephemeral", "-o", OutputFilePath>>
                          \o PushIf(model, "-m") \o <<"-">>,
               prompt |-> "", model |-> Undefined, stdin |-> p]
         [] t = "openai_review" ->
              [args |-> <<"review", "--ephemeral">>
                          \o (IF uncommitted THEN <<"--uncommitted">> ELSE <<>>)
                          \o PushIf(base, "--base") \o PushIf(commit, "--commit")
                          \o (IF Truthy(p) THEN <<"-">> ELSE <<>>),
               prompt |-> "", model |-> Undefined,
               stdin |-> IF Truthy(p) THEN p ELSE Undefined]
         [] ServerOf(t) = "gemini" ->
              [args |-> <<>>, prompt |-> p.v, model |-> model, stdin |-> Undefined]
         [] OTHER ->
              [args |-> <<>>, prompt |-> p.v,
               model |-> IF model.given THEN model ELSE Some("qwen-turbo"),
               stdin |-> Undefined]
  /\ UNCHANGED <<argv, stdinBytes, stdinEnded>>
  /\ UNCHANGED <<svars, cvars, kvars, ivars, fvars, nvars>>

\* the args the executor passes to spawn
ExecutorArgs(t, call) ==
  CASE ServerOf(t) = "openai" -> call.args
    [] ServerOf(t) = "gemini" ->
         <<"-p", call.prompt, "-o", "text">> \o PushIf(call.model, "-m")
    [] OTHER ->
         <<"-p", call.prompt>>
           \o (IF Truthy(call.model) /\ call.model.v # "qwen-turbo"
               THEN <<"-m", call.model.v>> ELSE <<>>)

RECURSIVE JoinSpaces(_)
JoinSpaces(q) ==
  IF q = <<>> THEN "" ELSE IF Len(q) = 1 THEN q[1] ELSE q[1] \o " " \o JoinSpaces(Tail(q))

RECURSIVE SplitSpaces(_)
\* the words of a command line
SplitSpaces(line) ==
  LET sp == {i \in 1..Len(line) : SubSeq(line, i, i) = " "}
  IN IF sp = {} THEN (IF line = "" THEN <<>> ELSE <<line>>)
     ELSE LET i == Min(sp)
              rest == SplitSpaces(SubSeq(line, i + 1, Len(line)))
          IN IF i = 1 THEN rest ELSE <<SubSeq(line, 1, i - 1)>> \o rest

\* a spawn that hands one command line to a shell
spawnArgvShell(command, args) == SplitSpaces(JoinSpaces(<<command>> \o args))

\* spawn(command, args) without the shell option: the child's argument
\* vector is the command followed by the elements of args, each as it is
spawnArgv(command, args) == <<command>> \o args

\* the executor up to the registration of its close listener: spawn, then
\* write and end, or end, of the child's stdin
Run(spawned) ==
  /\ rpc = "called"
  /\ rpc' = "run"
  /\ argv' = IF spawned THEN spawnArgv(Executable(rtool), ExecutorArgs(rtool, xcall))
             ELSE <<>>
  /\ stdinBytes' = IF Truthy(xcall.stdin) THEN xcall.stdin.v ELSE ""
  /\ stdinEnded' = TRUE
  /\ UNCHANGED <<rtool, payload, xcall>>
  /\ UNCHANGED <<svars, cvars, kvars, ivars, fvars, nvars>>

SpawnNext ==
  \/ \E t \in Tools, p \in {Undefined} \cup {Some(x) : x \in Prompts}, model \in Models,
        uncommitted \in BOOLEAN, base \in Revisions, commit \in Revisions :
        Request(t, p, model, uncommitted, base, commit)
  \/ \E spawned \in BOOLEAN : Run(spawned)

(***************************************************************************)
(* A consultation whose members are the servers: the answer of a member is *)
(* what its handler makes of the output of its child.                      *)
(***************************************************************************)
\* what a child writes to stdout before it exits
StdoutTexts == {"", "LGTM\n", "429: Rate limit reached for requests\n"}

\* what a child writes to stderr before it exits
StderrTexts == {"", "Error: rate limit exceeded, usage limit hit\n"}

FallbackIdle == produced = [p \in Primaries |-> {}]

\* the member is one of the servers; its child exits by itself with this
\* output and the handler's result is the answer
RespondOutput(p, out, err) ==
  /\ inflight[p] /\ chain[p][idx[p] + 1] \in Tools
  /\ \E returned \in {AfterResolve(chain[p][idx[p] + 1], out, err, 0, "")} :
       Answer(p, [isError |-> returned.isError, text |-> returned.text])
  /\ produced' = [produced EXCEPT ![p] = @ \cup {<<Len(attempts[p]) + 1, out \o err>>}]
  /\ UNCHANGED <<svars, kvars, pvars, ivars, nvars>>

\* the member is a provider outside the servers
RespondOther(p, resp) ==
  /\ chain[p][idx[p] + 1] \notin Tools
  /\ Respond(p, resp)

FallbackNext ==
  \/ \E p \in Primaries : Invoke(p)
  \/ \E p \in Primaries, out \in StdoutTexts, err \in StderrTexts : RespondOutput(p, out, err)
  \/ \E p \in Primaries, resp \in Responses : RespondOther(p, resp)
  \/ Synthesize

(***************************************************************************)
(* The response of openai_chat, extracted on its own.                      *)
(***************************************************************************)
\* lines of the stdout of a codex child
MaxLines == 3

\* what a line of it can be
LineTexts == {"codex", " codex ", "answer", "", "tokens used: 5", " tokens used"}

RECURSIVE JoinLines(_)
\* Array.prototype.join("\n")
JoinLines(q) ==
  IF q = <<>> THEN "" ELSE IF Len(q) = 1 THEN q[1] ELSE q[1] \o "\n" \o JoinLines(Tail(q))

\* the stdout texts of the model
StdoutLines == UNION {[1..n -> LineTexts] : n \in 0..MaxLines}

\* what the -o file can hold
OutputFiles ==
  {NoFile, FileWith(""), FileWith(" \n"), FileWith("from file\n"),
   FileWith("\ncodex\nfrom file \n")}

NotExtracted == [made |-> FALSE, read |-> "", text |-> ""]

ExtractIdle == xstdout = "" /\ xfile = NoFile /\ xresponse = NotExtracted

VerdictIdle == vrun = [tool |-> "none", out |-> "", err |-> "", file |-> NoFile] /\ verdicts = {}

RunningStatus == -1

SmokeIdle ==
  /\ tnow = 0 /\ tservers = <<>> /\ tcursor = 0 /\ tests = <<>>
  /\ allPassed = TRUE /\ exitStatus = RunningStatus

NewIdle == ExtractIdle /\ VerdictIdle /\ SmokeIdle

ExtractInit ==
  /\ xstdout \in {JoinLines(q) : q \in StdoutLines}
  /\ xfile \in OutputFiles
  /\ xresponse = NotExtracted

\* openai_chat, lines 234-241: readFile in a try/catch, then extractResponse
ReadAndExtract ==
  /\ ~xresponse.made
  /\ \E fileContent \in {IF xfile.exists THEN xfile.content ELSE ""} :
       xresponse' = [made |-> TRUE, read |-> fileContent,
                     text |-> extractResponse(xstdout, fileContent)]
  /\ UNCHANGED <<xstdout, xfile>>
  /\ UNCHANGED <<svars, cvars, kvars, pvars, ivars, fvars, vvars, tvars>>

ExtractNext == ReadAndExtract

(***************************************************************************)
(* The handler of one tool after its executor resolved, run on the same    *)
(* output with each exit code.                                             *)
(***************************************************************************)
\* what the child wrote to stdout: nothing, a blank line, an answer, a codex
\* marker with a blank answer, answers that mention a quota or a login page
VerdictOuts ==
  {"", "\n", "ok\n", "codex\n\n", "The quota is 5 per day.\n", "Use the login page.\n"}

\* what it wrote to stderr
VerdictErrs == {"", "debug: done\n", "You have hit your usage limit.\n"}

\* the exit code of a child that ended before the timeout: its own, or null
\* when a signal from outside ended it
VerdictCodes == ExitCodes \cup {NullExit}

VerdictInit ==
  /\ \E t \in Tools, out \in VerdictOuts, err \in VerdictErrs,
        file \in {NoFile} \cup {FileWith(c) : c \in FileContents} :
       /\ file.exists => t = "openai_chat"
       /\ vrun = [tool |-> t, out |-> out, err |-> err, file |-> file]
  /\ verdicts = {}

\* what openai_chat reads from its -o file: readFile comes after the
\* detectError check, and a missing file leaves the empty string
FileRead(run) ==
  IF /\ run.tool = "openai_chat" /\ run.file.exists
     /\ ~detectError(run.tool, run.out \o run.err).isError
  THEN run.file.content ELSE ""

\* the handler resumes with {stdout, stderr, exitCode} and returns
HandleExit(code) ==
  /\ vrun.tool \in Tools
  /\ \A v \in verdicts : v.code # code
  /\ \E r \in {AfterResolve(vrun.tool, vrun.out, vrun.err, code, FileRead(vrun))} :
       verdicts' = verdicts \cup {[code |-> code, isError |-> r.isError, text |-> r.text]}
  /\ UNCHANGED vrun
  /\ UNCHANGED <<svars, cvars, kvars, pvars, ivars, fvars, xvars, tvars>>

VerdictNext == \E code \in VerdictCodes : HandleExit(code)

(***************************************************************************)
(* The smoke test: main tests the servers one after another; testServer    *)
(* spawns a server, sends initialize, two seconds later tools/list, two    *)
(* seconds later checks the responses; a safety timer ends it at ten.      *)
(***************************************************************************)
\* the delay of the two nested timers of testServer
StepDelayMs == 2000

\* the delay of the safety timer
SafetyMs == 10000

\* how long the event loop may be held up when a timer is due
StallMs == 6500

\* how often that happens in one run
MaxStalls == 1

DefaultServers == <<"mcp-openai", "mcp-gemini", "mcp-qwen">>

\* process.argv[2] names one server, or all three are tested
ServerLists == {DefaultServers} \cup {<<DefaultServers[i]>> : i \in 1..Len(DefaultServers)}

\* what a server answers to initialize (id 1)
InitReplies == {"result", "error"}

\* what it answers to tools/list (id 2): a result with tools, a result with
\* an empty list, an error
ListReplies == {"tools", "notools", "error"}

\* testServer up to its return: spawn, listeners, initialize sent, the outer
\* and the safety timer armed
NewTest(name, at) ==
  [name |-> name, done |-> FALSE, resolutions |-> 0, verdict |-> "none",
   printed |-> "none", server |-> "alive", kills |-> 0, listSent |-> FALSE,
   responses |-> <<>>, stalls |-> 0,
   outer |-> [st |-> "pending", at |-> at + StepDelayMs],
   inner |-> Unset,
   safety |-> [st |-> "pending", at |-> at + SafetyMs]]

SmokeInit ==
  /\ tnow = 0 /\ tservers \in ServerLists /\ tcursor = 0 /\ tests = <<>>
  /\ allPassed = TRUE /\ exitStatus = RunningStatus

Running == exitStatus = RunningStatus

TimerNames == {"outer", "inner", "safety"}

TimerOf(k, w) ==
  CASE w = "outer" -> tests[k].outer
    [] w = "inner" -> tests[k].inner
    [] OTHER -> tests[k].safety

\* the timers whose delay is over
DueTimers ==
  {d \in (1..Len(tests)) \X TimerNames :
     Pending(TimerOf(d[1], d[2])) /\ TimerOf(d[1], d[2]).at <= tnow}

\* Node runs the callbacks of due timers in the order of their expiry
RunsNext(k, w) ==
  /\ <<k, w>> \in DueTimers
  /\ \A d \in DueTimers : TimerOf(k, w).at <= TimerOf(d[1], d[2]).at

\* main awaits a test that is resolved: it resumes before any other callback
ResumePending == tcursor >= 1 /\ tests[tcursor].done

\* finish(pass)
finish(r, pass) ==
  IF r.done THEN r
  ELSE [r EXCEPT !.done = TRUE, !.resolutions = @ + 1,
                 !.verdict = IF pass THEN "PASS" ELSE "FAIL"]

\* proc.kill()
KillServer(r) == [r EXCEPT !.server = "killed", !.kills = @ + 1]

\* responses.find(r => r.id === id): its kind, or "none"
FindKind(responses, id) ==
  LET found == {i \in 1..Len(responses) : responses[i].id = id}
  IN IF found = {} THEN "none" ELSE responses[Min(found)].kind

\* a verdict that does not look at the list of tools
PassVerdictAnyResult(responses) ==
  /\ FindKind(responses, 1) = "result"
  /\ FindKind(responses, 2) \in {"tools", "notools"}

\* !!(initResp?.result && toolsResp?.result && tools.length > 0)
PassVerdict(responses) ==
  /\ FindKind(responses, 1) = "result"
  /\ FindKind(responses, 2) \in {"tools", "notools"}
  /\ FindKind(responses, 2) = "tools"

\* main starts, and calls testServer for the first server
MainStart ==
  /\ Running /\ tcursor = 0
  /\ tcursor' = 1
  /\ tests' = <<NewTest(tservers[1], tnow)>>
  /\ UNCHANGED <<tnow, tservers, allPassed, exitStatus>>
  /\ UNCHANGED <<svars, cvars, kvars, pvars, ivars, fvars, xvars, vvars>>

\* main resumes from its await: it notes the verdict, and tests the next
\* server or exits
MainResume ==
  /\ Running /\ ResumePending
  /\ allPassed' = (allPassed /\ tests[tcursor].verdict = "PASS")
  /\ IF tcursor < Len(tservers)
     THEN /\ tcursor' = tcursor + 1
          /\ tests' = Append(tests, NewTest(tservers[tcursor + 1], tnow))
          /\ UNCHANGED exitStatus
     ELSE /\ exitStatus' = IF allPassed' THEN 0 ELSE 1
          /\ UNCHANGED <<tcursor, tests>>
  /\ UNCHANGED <<tnow, tservers>>
  /\ UNCHANGED <<svars, cvars, kvars, pvars, ivars, fvars, xvars, vvars>>

\* the server answers a request it was sent: the stdout listener parses the
\* line and pushes it
Reply(k, id, kind) ==
  /\ Running /\ ~ResumePending /\ DueTimers = {}
  /\ k \in 1..Len(tests) /\ tests[k].server = "alive"
  /\ id = 1 => kind \in InitReplies
  /\ id = 2 => kind \in ListReplies /\ tests[k].listSent
  /\ FindKind(tests[k].responses, id) = "none"
  /\ tests' = [tests EXCEPT ![k].responses = Append(@, [id |-> id, kind |-> kind])]
  /\ UNCHANGED <<tnow, tservers, tcursor, allPassed, exitStatus>>
  /\ UNCHANGED <<svars, cvars, kvars, pvars, ivars, fvars, xvars, vvars>>

\* the outer timer: initialized and tools/list are sent, the inner timer armed
OuterFire(k) ==
  /\ Running /\ ~ResumePending /\ RunsNext(k, "outer")
  /\ tests' = [tests EXCEPT ![k] =
                 IF @.done THEN [@ EXCEPT !.outer.st = "fired"]
                 ELSE [@ EXCEPT !.outer.st = "fired", !.listSent = TRUE,
                                !.inner = [st |-> "pending", at |-> tnow + StepDelayMs]]]
  /\ UNCHANGED <<tnow, tservers, tcursor, allPassed, exitStatus>>
  /\ UNCHANGED <<svars, cvars, kvars, pvars, ivars, fvars, xvars, vvars>>

\* the inner timer: the check
InnerFire(k) ==
  /\ Running /\ ~ResumePending /\ RunsNext(k, "inner")
  /\ tests' = [tests EXCEPT ![k] =
                 IF @.done THEN [@ EXCEPT !.inner.st = "fired"]
                 ELSE finish([KillServer(@) EXCEPT
                                !.inner.st = "fired",
                                !.printed = IF PassVerdict(tests[k].responses)
                                            THEN "PASS" ELSE "FAIL"],
                             PassVerdict(tests[k].responses))]
  /\ UNCHANGED <<tnow, tservers, tcursor, allPassed, exitStatus>>
  /\ UNCHANGED <<svars, cvars, kvars, pvars, ivars, fvars, xvars, vvars>>

\* a safety timer that kills the server and leaves the test as it is
SafetyFireKillOnly(k) ==
  /\ Running /\ ~ResumePending /\ RunsNext(k, "safety")
  /\ tests' = [tests EXCEPT ![k] = [KillServer(@) EXCEPT !.safety.st = "fired"]]
  /\ UNCHANGED <<tnow, tservers, tcursor, allPassed, exitStatus>>
  /\ UNCHANGED <<svars, cvars, kvars, pvars, ivars, fvars, xvars, vvars>>

\* the safety timer
SafetyFire(k) ==
  /\ Running /\ ~ResumePending /\ RunsNext(k, "safety")
  /\ tests' = [tests EXCEPT ![k] =
                 IF @.done THEN [KillServer(@) EXCEPT !.safety.st = "fired"]
                 ELSE finish([KillServer(@) EXCEPT !.safety.st = "fired",
                                                   !.printed = "FAIL (timeout)"],
                             FALSE)]
  /\ UNCHANGED <<tnow, tservers, tcursor, allPassed, exitStatus>>
  /\ UNCHANGED <<svars, cvars, kvars, pvars, ivars, fvars, xvars, vvars>>

SmokeDeadlines ==
  {TimerOf(d[1], d[2]).at : d \in {e \in (1..Len(tests)) \X TimerNames :
                                      Pending(TimerOf(e[1], e[2]))}}

RECURSIVE StallsSoFar(_)
StallsSoFar(n) == IF n = 0 THEN 0 ELSE tests[n].stalls + StallsSoFar(n - 1)

\* time passes until the next timer is due, or longer when the event loop is
\* held up
SmokeTick(stall) ==
  /\ Running /\ ~ResumePending /\ DueTimers = {}
  /\ tcursor >= 1
  /\ SmokeDeadlines # {}
  /\ stall => StallsSoFar(Len(tests)) < MaxStalls
  /\ tnow' = Min(SmokeDeadlines) + (IF stall THEN StallMs ELSE 0)
  /\ tests' = IF stall THEN [tests EXCEPT ![tcursor].stalls = @ + 1] ELSE tests
  /\ UNCHANGED <<tservers, tcursor, allPassed, exitStatus>>
  /\ UNCHANGED <<svars, cvars, kvars, pvars, ivars, fvars, xvars, vvars>>

SmokeNext ==
  \/ MainStart
  \/ MainResume
  \/ \E k \in 1..Len(tests), id \in {1, 2}, kind \in InitReplies \cup ListReplies :
        Reply(k, id, kind)
  \/ \E k \in 1..Len(tests) : OuterFire(k)
  \/ \E k \in 1..Len(tests) : InnerFire(k)
  \/ \E k \in 1..Len(tests) : SafetyFire(k)
  \/ \E stall \in BOOLEAN : SmokeTick(stall)

(***************************************************************************)
(* Concurrent invocations.  Every call of an executor runs the body of its *)
(* Promise once: the buffers, the killed flag and the timers are variables *)
(* of that call, the listeners close over them and over its own child.     *)
(***************************************************************************)
Invocations == {"A", "B"}

\* data events per invocation
MaxData == 2

\* the sizes of a chunk: one character, or as much as MAX_BUFFER
ChunkSizes == {1, MAX_BUFFER}

NotStarted ==
  [exec |-> "none", stdout |-> 0, stderr |-> 0, ndata |-> 0, killed |-> FALSE,
   timer |-> "none", killTimer |-> "none", child |-> "none", procKilled |-> FALSE,
   signals |-> <<>>, settled |-> "pending"]

PairIdle == inv = [i \in Invocations |-> NotStarted]

\* runCodex / runGemini up to the registration of the listeners
InvStart(i, e, found) ==
  /\ inv[i].exec = "none"
  /\ inv' = [inv EXCEPT ![i] = [NotStarted EXCEPT !.exec = e, !.timer = "armed",
                                    !.child = IF found THEN "running" ELSE "nospawn"]]
  /\ UNCHANGED <<svars, cvars, kvars, pvars, fvars, nvars>>

\* proc.kill(sig) of an invocation: delivered to its own running child
KillOwn(r, sig) ==
  IF r.child = "running"
  THEN [r EXCEPT !.signals = Append(@, sig), !.procKilled = TRUE]
  ELSE r

\* an executor whose buffer is a variable of the module: a chunk of one child
\* is appended for every invocation
InvDataModuleBuffer(i, pipe, n) ==
  /\ inv[i].child = "running" /\ inv[i].ndata < MaxData
  /\ inv' = [j \in Invocations |->
               IF inv[j].exec = "none" THEN inv[j]
               ELSE IF pipe = "stdout"
               THEN [inv[j] EXCEPT !.stdout = @ + n, !.ndata = IF j = i THEN @ + 1 ELSE @]
               ELSE [inv[j] EXCEPT !.stderr = @ + n, !.ndata = IF j = i THEN @ + 1 ELSE @]]
  /\ UNCHANGED <<svars, cvars, kvars, pvars, fvars, nvars>>

\* proc.stdout.on("data") / proc.stderr.on("data")
InvData(i, pipe, n) ==
  /\ inv[i].child = "running" /\ inv[i].ndata < MaxData
  /\ LET r == inv[i]
         appended == IF pipe = "stdout"
                     THEN [r EXCEPT !.stdout = @ + n, !.ndata = @ + 1]
                     ELSE [r EXCEPT !.stderr = @ + n, !.ndata = @ + 1]
         length == IF pipe = "stdout" THEN appended.stdout ELSE appended.stderr
     IN inv' = [inv EXCEPT ![i] =
                  IF r.exec = "gemini" /\ length > MAX_BUFFER
                  THEN KillOwn([appended EXCEPT !.killed = TRUE], "SIGTERM")
                  ELSE appended]
  /\ UNCHANGED <<svars, cvars, kvars, pvars, fvars, nvars>>

\* the timeout callback; a failed spawn is reported before any timer is due
InvTimer(i) ==
  /\ inv[i].timer = "armed" /\ inv[i].child = "running"
  /\ inv' = [inv EXCEPT ![i] =
               KillOwn([@ EXCEPT !.timer = "fired", !.killed = TRUE, !.killTimer = "armed"],
                       "SIGTERM")]
  /\ UNCHANGED <<svars, cvars, kvars, pvars, fvars, nvars>>

\* the escalation callback
InvKillTimer(i) ==
  /\ inv[i].killTimer = "armed"
  /\ inv' = [inv EXCEPT ![i] =
               IF ~inv[i].procKilled
               THEN KillOwn([@ EXCEPT !.killTimer = "fired"], "SIGKILL")
               ELSE [@ EXCEPT !.killTimer = "fired"]]
  /\ UNCHANGED <<svars, cvars, kvars, pvars, fvars, nvars>>

\* clearTimeout of a timer that is still armed
Cleared(t) == IF t = "armed" THEN "cleared" ELSE t

\* proc.on("close")
InvClose(i) ==
  /\ inv[i].child \in {"running", "errored"}
  /\ inv' = [inv EXCEPT ![i] =
               [@ EXCEPT !.child = "closed",
                         !.timer = Cleared(@),
                         !.killTimer = IF inv[i].exec = "gemini" THEN Cleared(@) ELSE @,
                         !.settled = IF @ # "pending" THEN @
                                     ELSE IF inv[i].killed THEN "rejected" ELSE "resolved"]]
  /\ UNCHANGED <<svars, cvars, kvars, pvars, fvars, nvars>>

\* proc.on("error"): the child could not be spawned
InvError(i) ==
  /\ inv[i].child = "nospawn"
  /\ inv' = [inv EXCEPT ![i] =
               [@ EXCEPT !.child = "errored",
                         !.timer = Cleared(@),
                         !.killTimer = IF inv[i].exec = "gemini" THEN Cleared(@) ELSE @,
                         !.settled = IF @ # "pending" THEN @ ELSE "rejected"]]
  /\ UNCHANGED <<svars, cvars, kvars, pvars, fvars, nvars>>

PairNext ==
  \/ \E i \in Invocations, e \in {"codex", "gemini"}, found \in BOOLEAN : InvStart(i, e, found)
  \/ \E i \in Invocations, pipe \in {"stdout", "stderr"}, n \in ChunkSizes :
        InvData(i, pipe, n)
  \/ \E i \in Invocations : InvTimer(i)
  \/ \E i \in Invocations : InvKillTimer(i)
  \/ \E i \in Invocations : InvClose(i)
  \/ \E i \in Invocations : InvError(i)

(***************************************************************************)
(* Specifications.  Spec: one tool call of one server.  ChainSpec: one     *)
(* consultation, each tool call seen by its response.  ClassifierSpec: the *)
(* classifier of one server called on one text.  SpawnSpec: one spawn.     *)
(***************************************************************************)
Init == NewIdle /\ PairIdle /\ FallbackIdle /\ ServerInit /\ ChainIdle /\ ClassifierIdle /\ SpawnIdle

Spec == Init /\ [][ServerNext]_vars

XInit == ExtractInit /\ VerdictIdle /\ SmokeIdle /\ PairIdle /\ FallbackIdle
         /\ ServerInit /\ ChainIdle /\ ClassifierIdle /\ SpawnIdle

ExtractSpec == XInit /\ [][ExtractNext]_vars

TInit == ExtractIdle /\ VerdictIdle /\ SmokeInit /\ PairIdle /\ FallbackIdle
         /\ ServerInit /\ ChainIdle /\ ClassifierIdle /\ SpawnIdle

SmokeSpec == TInit /\ [][SmokeNext]_vars

VInit == ExtractIdle /\ VerdictInit /\ SmokeIdle /\ PairIdle /\ FallbackIdle
         /\ ServerInit /\ ChainIdle /\ ClassifierIdle /\ SpawnIdle

VerdictSpec == VInit /\ [][VerdictNext]_vars

TimeoutSpec == Init /\ [][TimeoutNext]_vars

CapSpec == Init /\ [][CapNext]_vars

CInit == NewIdle /\ PairIdle /\ FallbackIdle /\ ServerInit /\ ChainInit /\ ClassifierIdle /\ SpawnIdle

ChainSpec == CInit /\ [][ChainNext]_vars

\* the consultation with an orchestrator that goes on while it can, and members
\* whose calls all return in the end
ChainFairSpec ==
  /\ ChainSpec
  /\ \A p \in Primaries :
       /\ WF_vars(Invoke(p))
       /\ WF_vars(\E resp \in Responses : Respond(p, resp))

KInit == NewIdle /\ PairIdle /\ FallbackIdle /\ ServerInit /\ ChainIdle /\ ClassifierInit /\ SpawnIdle

PInit == NewIdle /\ PairIdle /\ FallbackIdle /\ ServerInit /\ ChainIdle /\ ClassifierIdle /\ SpawnIdle

SpawnSpec == PInit /\ [][SpawnNext]_vars

PairSpec == PInit /\ [][PairNext]_vars

\* the consultation of the default chains
FallbackSpec == Init /\ [][FallbackNext]_vars

ClassifierSpec == KInit /\ [][ClassifierNext]_vars

(***************************************************************************)
(* Properties of the fallback chain walk and of the parallel consultation  *)
(* (checked under ChainSpec).                                              *)
(***************************************************************************)
\* the indices 0 .. n-1, in order
UpTo(n) == [k \in 1..n |-> k - 1]

IsSuccess(a) == ~a.result.isError

FailedSoFar(p) == \A k \in 1..Len(attempts[p]) : ~IsSuccess(attempts[p][k])

\* C1: first success wins.  A success in the log of a walk is its last entry:
\* the walk is SUCCEEDED, no member is in flight, the members called are
\* exactly 0..i (none after the one that succeeded), and the terminal result
\* is that success.
C1_FirstSuccessWins ==
  \A p \in Primaries : \A k \in 1..Len(attempts[p]) :
    IsSuccess(attempts[p][k]) =>
      /\ k = Len(attempts[p])
      /\ wstate[p] = "SUCCEEDED"
      /\ ~inflight[p]
      /\ invoked[p] = UpTo(k)
      /\ wresult[p] = attempts[p][k].result

\* a walk that succeeded at its second member, compared while the third was
\* never called
C1_Witness ==
  \E p \in Primaries :
    /\ wstate[p] = "SUCCEEDED" /\ Len(attempts[p]) = 2 /\ Len(chain[p]) = 3
    /\ synthesis # {}

\* C2: no retry.  The members a walk has called are 0, 1, 2, ... each once and
\* in index order; a failure of member i (of any kind) leaves the walk at
\* member i+1 when the chain has one, and EXHAUSTED otherwise; the walk is
\* never again at member i or before it.
C2_NoRetryAlwaysAdvance ==
  \A p \in Primaries :
    /\ invoked[p] = UpTo(Len(invoked[p]))
    /\ Len(invoked[p]) <= Len(chain[p])
    /\ \A k \in 1..Len(attempts[p]) :
         ~IsSuccess(attempts[p][k]) =>
           /\ attempts[p][k].agentName = chain[p][k]
           /\ IF k < Len(chain[p])
              THEN /\ idx[p] >= k
                   /\ k = Len(attempts[p]) => wstate[p] = "TRYING" /\ idx[p] = k
              ELSE wstate[p] = "EXHAUSTED"

\* a walk calling its third member after two failures of different kinds
C2_Witness ==
  \E p \in Primaries :
    /\ wstate[p] = "TRYING" /\ idx[p] = 2 /\ inflight[p]
    /\ Len(attempts[p]) = 2 /\ FailedSoFar(p)
    /\ attempts[p][1].result # attempts[p][2].result

\* C3: a walk all of whose members fail.  While every attempt so far failed,
\* the walk is EXHAUSTED exactly when the log holds one attempt per member;
\* an EXHAUSTED walk called the members 0..n-1 in order, logged n failures in
\* chain order, and its result is the failure of the last member.
C3_AllFailExhausts ==
  \A p \in Primaries :
    /\ FailedSoFar(p) =>
         (wstate[p] = "EXHAUSTED" <=> Len(attempts[p]) = Len(chain[p]))
    /\ wstate[p] = "EXHAUSTED" =>
         /\ FailedSoFar(p)
         /\ Len(attempts[p]) = Len(chain[p])
         /\ invoked[p] = UpTo(Len(chain[p]))
         /\ \A k \in 1..Len(chain[p]) : attempts[p][k].agentName = chain[p][k]
         /\ wresult[p] = attempts[p][Len(chain[p])].result
         /\ wresult[p].isError

\* an exhausted chain of three whose first and last member failed differently
C3_Witness ==
  \E p \in Primaries :
    /\ wstate[p] = "EXHAUSTED" /\ Len(chain[p]) = 3
    /\ attempts[p][1].result # attempts[p][3].result

\* C4: a walk in which exactly the last member succeeds.  Once the first n-1
\* members have failed the walk is at the last member, having called 0..n-2 (and
\* then n-1) in order; when the last member succeeds the walk is SUCCEEDED after
\* n attempts in chain order and its result is that success.
C4_LastMemberSucceeds ==
  \A p \in Primaries :
    LET n == Len(chain[p])
        m == Len(attempts[p])
    IN /\ (m = n - 1 /\ FailedSoFar(p)) =>
            /\ wstate[p] \in {"PENDING", "TRYING"}
            /\ idx[p] = n - 1
            /\ invoked[p] \in {UpTo(n - 1), UpTo(n)}
       /\ (m = n /\ IsSuccess(attempts[p][m])) =>
            /\ wstate[p] = "SUCCEEDED"
            /\ invoked[p] = UpTo(n)
            /\ \A k \in 1..n : attempts[p][k].agentName = chain[p][k]
            /\ \A k \in 1..(n - 1) : ~IsSuccess(attempts[p][k])
            /\ wresult[p] = attempts[p][n].result
            /\ ~wresult[p].isError

\* a chain of three that succeeded at its third member
C4_Witness ==
  \E p \in Primaries :
    /\ wstate[p] = "SUCCEEDED" /\ Len(chain[p]) = 3 /\ Len(attempts[p]) = 3

\* C10: the coordinator is a join.  Once the responses are being compared,
\* every primary's walk is SUCCEEDED or EXHAUSTED, and the comparison holds
\* exactly one outcome per primary: the terminal result of its walk.
C10_CoordinatorJoin ==
  synthesis # {} =>
    /\ \A p \in Primaries : wstate[p] \in {"SUCCEEDED", "EXHAUSTED"} /\ ~inflight[p]
    /\ {e.role : e \in synthesis} = Primaries
    /\ Cardinality(synthesis) = Cardinality(Primaries)
    /\ \A e \in synthesis : e.outcome = wresult[e.role]

\* a comparison of one walk that succeeded and one that was exhausted
C10_Witness ==
  /\ synthesis # {}
  /\ \E p, q \in Primaries : wstate[p] = "SUCCEEDED" /\ wstate[q] = "EXHAUSTED"

\* everything one walk owns
WalkOf(p) == <<wstate[p], idx[p], inflight[p], invoked[p], attempts[p], wresult[p]>>

C12_SequentialAttempts ==
  /\ [](\A p \in Primaries :
          /\ Len(invoked[p]) = Len(attempts[p]) + (IF inflight[p] THEN 1 ELSE 0)
          /\ invoked[p] = UpTo(Len(invoked[p]))
          /\ \A k \in 1..Len(attempts[p]) : attempts[p][k].agentName = chain[p][k])
  /\ [][\A p \in Primaries :
          /\ invoked'[p] # invoked[p] => ~inflight[p] /\ inflight'[p]
          /\ attempts'[p] # attempts[p] => inflight[p] /\ ~inflight'[p]]_vars

\* the second member is in flight after the first was answered and logged
C12_Witness ==
  \E p \in Primaries :
    invoked[p] = <<0, 1>> /\ Len(attempts[p]) = 1 /\ inflight[p]

\* log is log2 or a beginning of it
IsPrefix(log, log2) == Len(log) <= Len(log2) /\ SubSeq(log2, 1, Len(log)) = log

\* C13: the attempt log.  The log only grows by appending; the log of a walk
\* that ended is non-empty and its last entry is the walk's result: a success,
\* or the failure of the last member of the chain.
C13_AttemptLog ==
  /\ [](\A p \in Primaries :
          wstate[p] \in Terminal =>
            /\ attempts[p] # <<>>
            /\ LET last == attempts[p][Len(attempts[p])]
               IN /\ last.result = wresult[p]
                  /\ IF wstate[p] = "SUCCEEDED" THEN IsSuccess(last)
                     ELSE /\ ~IsSuccess(last)
                          /\ last.agentName = chain[p][Len(chain[p])])
  /\ [][\A p \in Primaries : IsPrefix(attempts[p], attempts'[p])]_vars

\* a chain of two exhausted after two logged failures
C13_Witness ==
  \E p \in Primaries :
    wstate[p] = "EXHAUSTED" /\ Len(chain[p]) = 2 /\ Len(attempts[p]) = 2

\* C34: chain walk termination.  Every walk reaches SUCCEEDED or EXHAUSTED,
\* after at most as many attempts as its chain has members; its index is 0
\* until the first member answered, changes only by going up by 1, and stays
\* below the length of the chain (checked under ChainFairSpec).
C34_WalkTerminates ==
  /\ \A p \in Primaries : <>(wstate[p] \in Terminal)
  /\ [](\A p \in Primaries :
         /\ idx[p] >= 0 /\ idx[p] < Len(chain[p])
         /\ Len(invoked[p]) <= Len(chain[p])
         /\ Len(attempts[p]) <= Len(chain[p])
         /\ attempts[p] = <<>> => idx[p] = 0)
  /\ [][\A p \in Primaries : idx'[p] = idx[p] \/ idx'[p] = idx[p] + 1]_vars

\* a walk over a chain of three members ended EXHAUSTED at its last index,
\* after three attempts
C34_Witness ==
  \E p \in Primaries :
    /\ wstate[p] = "EXHAUSTED" /\ Len(chain[p]) = 3
    /\ idx[p] = 2 /\ invoked[p] = <<0, 1, 2>> /\ Len(attempts[p]) = 3

(***************************************************************************)
(* Properties of the executors and of the tool handlers (checked under     *)
(* Spec).                                                                  *)
(***************************************************************************)
\* the timeout timer ran while the child was alive, so SIGTERM reached it
ChildOutlivedTimeout == timer.st = "fired" /\ Sent("SIGTERM")

\* C5: a timed-out invocation settles within the grace window.  Once the
\* clock is past timeoutMs + 5000 ms, the promise of an invocation whose child
\* outlived the timeout is rejected with the timed-out Error, whatever the
\* child does with SIGTERM.
C5_TimedOutSettlesInGrace ==
  (ChildOutlivedTimeout /\ now > timer.at + GraceMs) =>
    /\ outcome.st = "rejected"
    /\ outcome.message = KilledMessage(tool, timeoutSec, stdout, stderr)

\* C6: two-stage termination.  A child still running after the timeout timer
\* ran has been sent SIGTERM, and a child still running after the escalation
\* timer ran (5000 ms later) has been sent SIGKILL.
C6_TwoStageTermination ==
  /\ (timer.st = "fired" /\ proc = "running") => Sent("SIGTERM")
  /\ (killTimer.st = "fired" /\ proc = "running") =>
       /\ Sent("SIGKILL")
       /\ killTimer.at = timer.at + GraceMs

\* C7: timers are cleared on every exit path.  Once the close or the error
\* listener has run, neither the timeout timer nor the escalation timer is
\* pending.
C7_TimersClearedOnExit ==
  (closeHandled \/ errorHandled) => ~Pending(timer) /\ ~Pending(killTimer)

\* a tool call whose executor reported a timeout, after the handler returned
TimedOutRun == hpc = "done" /\ killed /\ closeHandled /\ ~errorHandled

\* C8 as stated: timeout short-circuits classification.  A timed-out run
\* returns the handler's generic timeout failure whatever the partial output.
C8_TimeoutShortCircuits ==
  TimedOutRun =>
    /\ result.isError
    /\ result.text = ErrorPrefix(tool) \o KilledMessage(tool, timeoutSec, stdout, stderr)

\* the partial output a server quotes in its timed-out Error
QuotedPartial ==
  sliceLast(IF ServerOf(tool) = "openai" THEN stdout \o stderr ELSE stdout, PartialTail)

\* C8 as amended: a timed-out run returns a failure; it is the classified
\* failure when the quoted tail of the partial output (the last 200 characters
\* of stdout+stderr for mcp-openai, of stdout for mcp-gemini and mcp-qwen)
\* matches a rule of the server's detectError, and the generic timeout failure
\* otherwise.
C8_TimeoutClassifiedByTail ==
  TimedOutRun =>
    /\ result.isError
    /\ \E error \in {detectError(tool, QuotedPartial)} :
         IF error.isError
         THEN result.text = error.message
         ELSE result.text
                = ErrorPrefix(tool) \o KilledMessage(tool, timeoutSec, stdout, stderr)

\* a timed-out run whose partial output matched a classifier rule
C8_Witness == TimedOutRun /\ ret = "catch_known"

\* a run that exited with code 0 and wrote nothing, after the handler returned
EmptyRun ==
  /\ hpc = "done" /\ outcome.st = "resolved"
  /\ exitCode = 0 /\ stdout = "" /\ stderr = ""

C14_ExactlyOneOutcome ==
  /\ []((closeHandled \/ errorHandled) <=> outcome.st \in {"resolved", "rejected"})
  /\ [][outcome.st # "pending" => outcome' = outcome]_vars

\* a failed spawn: the error listener rejected, then the close listener ran
C14_Witness ==
  /\ errorHandled /\ closeHandled
  /\ outcome = [st |-> "rejected", message |-> SpawnErrorMessage(tool)]

C16_OutputFileDeleted ==
  (hpc = "done" /\ tool = "openai_chat") => unlinked /\ ~outFile.exists

\* openai_chat returned from its catch block after a timeout, the file unlinked
C16_Witness ==
  /\ hpc = "done" /\ tool = "openai_chat" /\ unlinked
  /\ killed /\ outcome.st = "rejected" /\ exitCode = NullExit

\* the close listener ran for a child that ended before the timeout timer
\* fired and that never filled a buffer beyond the cap
NormalExit ==
  /\ closeHandled /\ proc = "exited"
  /\ timer.st # "fired"
  /\ jsLength(stdout) <= MAX_BUFFER /\ jsLength(stderr) <= MAX_BUFFER

\* C19: normal exit.  When the child's close event comes before the timeout
\* timer fires and no buffer exceeded the cap, the promise is resolved (the
\* run is not marked killed) with the child's own exit code, no signal was or
\* will be sent to the child, and each buffer only ever grows by the chunk
\* that just arrived, appended at its end.
C19_NormalExit ==
  /\ [](NormalExit =>
         /\ outcome = [st |-> "resolved", message |-> ""]
         /\ ~killed
         /\ exitCode \in ExitCodes
         /\ signals = <<>>)
  /\ [][/\ stdout' # stdout => \E c \in Chunks : stdout' = stdout \o c
        /\ stderr' # stderr => \E c \in Chunks : stderr' = stderr \o c]_vars

\* a child that wrote two stdout chunks and exited with code 1 by itself
C19_Witness ==
  /\ hpc = "done" /\ NormalExit /\ ret = "ok"
  /\ exitCode = 1 /\ stdout = Filler \o "ok\n" /\ stderr = ""

\* the handler returned after its executor resolved: the run did not time out
NonTimedOutRun == hpc = "done" /\ outcome.st = "resolved"

\* the response text a handler extracts from a resolved run
ExtractedText ==
  CASE tool = "openai_chat" -> extractResponse(stdout, outputFileContent)
    [] tool = "openai_review" -> trim(stdout \o stderr)
    [] OTHER -> trim(stdout)

DetectedByHandler ==
  IF ret = "detected" THEN detectError(tool, stdout \o stderr)
  ELSE detectError(tool, outcome.message)

\* C24: structured error response.  When the handler returned because its
\* server detected a provider error, the tool result has isError true and
\* carries the error type of that error.
C24_ResultCarriesErrorType ==
  (hpc = "done" /\ ret \in {"detected", "catch_known"}) =>
    \E error \in {DetectedByHandler} :
      /\ error.isError
      /\ result.isError
      /\ Includes(result.text, error.errorType)

\* the executor rejected (failed spawn, kill on timeout) with a message that
\* matches no rule of the classifier
UnrecognizedRejection ==
  /\ hpc = "done" /\ outcome.st = "rejected"
  /\ ~detectError(tool, outcome.message).isError

\* the executor resolved with output that matches no rule and holds no
\* response text
UnrecognizedEmpty ==
  /\ NonTimedOutRun
  /\ ~detectError(tool, stdout \o stderr).isError
  /\ ExtractedText = ""

\* the tail of the raw output that a "No response" result quotes
RawTail ==
  IF ServerOf(tool) = "openai" THEN sliceLast(stdout \o stderr, OutputTail)
  ELSE sliceLast(stderr, OutputTail)

DocumentedDefault(t) ==
  CASE t = "openai_chat" -> 90
    [] t = "openai_review" -> 120
    [] t = "gemini_chat" -> 90
    [] t = "gemini_analyze" -> 180
    [] OTHER -> 120

\* C31: timeout selection.  A call arms the timeout timer with the request's
\* number of seconds when it gives one and with the documented default of the
\* tool when it gives none, and the delay of the timer is that number of
\* seconds times 1000, exactly (checked under TimeoutSpec).
C31_TimeoutSelection ==
  [][\A t \in Tools, arg \in WideTimeoutArgs, spawned \in BOOLEAN :
       Call(t, arg, spawned) =>
         /\ timeoutSec' = (IF arg.given THEN arg.sec ELSE DocumentedDefault(t))
         /\ (timer'.at - now) % 1000 = 0
         /\ (timer'.at - now) \div 1000 = timeoutSec']_vars

(***************************************************************************)
(* Properties of the output buffers (checked under CapSpec).               *)
(***************************************************************************)
\* C17: the buffer cap.  At every moment of a run, in every executor, the
\* captured stdout and the captured stderr each hold at most MAX_BUFFER
\* characters.
C17_BufferCap ==
  jsLength(stdout) <= MAX_BUFFER /\ jsLength(stderr) <= MAX_BUFFER

\* a buffer holds more than the cap
Overflowed == jsLength(stdout) > MAX_BUFFER \/ jsLength(stderr) > MAX_BUFFER

\* C18: overflow aborts like a timeout.  Once a buffer holds more than the
\* cap the run is marked killed and a child still running has been sent
\* SIGTERM; if it is still running more than 5000 ms after that SIGTERM it has
\* been sent SIGKILL; and when the close listener has run the promise is
\* rejected with the timed-out Error.
C18_OverflowAborts ==
  Overflowed =>
    /\ killed
    /\ proc = "running" =>
         /\ Sent("SIGTERM")
         /\ now > signals[1].at + GraceMs => Sent("SIGKILL")
    /\ closeHandled =>
         outcome = [st |-> "rejected",
                    message |-> KilledMessage(tool, timeoutSec, stdout, stderr)]

\* the close listener ran and the executor's promise carries the timed-out Error
ReportedTimedOut ==
  /\ closeHandled
  /\ outcome = [st |-> "rejected",
                message |-> KilledMessage(tool, timeoutSec, stdout, stderr)]

\* C36 as stated: the timer/close race.  An invocation is reported as timed
\* out exactly when its timeout timer callback ran before the close event was
\* handled; once close is handled the timer never fires.
C36_TimerCloseRaceAsStated ==
  /\ [](closeHandled => (ReportedTimedOut <=> timer.st = "fired"))
  /\ [][closeHandled => (timer'.st = "fired" <=> timer.st = "fired")]_vars

\* the killed flag was set by a data listener of mcp-gemini: a buffer held more
\* than the cap
KilledByCap == ServerOf(tool) = "gemini" /\ Overflowed

\* C36 as amended: an invocation is reported as timed out exactly when the
\* killed flag was set before the close event was handled: by the timeout timer
\* callback, or in mcp-gemini by a data listener that found its buffer above
\* the cap.  Once close is handled the timer never fires, and without an
\* overflow a run whose close came first is never reported as timed out; a run
\* whose timer fired first is reported as timed out even when the child then
\* exits by itself with code 0 and its output complete.
C36_TimerCloseRace ==
  /\ [](closeHandled =>
         /\ ReportedTimedOut <=> (timer.st = "fired" \/ KilledByCap)
         /\ killed <=> (timer.st = "fired" \/ KilledByCap))
  /\ [][closeHandled => (timer'.st = "fired" <=> timer.st = "fired")]_vars

\* the timer fired, then the child ended by itself with code 0 after it wrote
\* its answer, and the handler returned the timed-out failure
C36_Witness ==
  /\ hpc = "done" /\ ReportedTimedOut /\ timer.st = "fired"
  /\ exitCode = 0 /\ stdout = "ok\n" /\ ~Overflowed
  /\ result.isError

\* C35: signal ordering.  SIGKILL reaches a child only after SIGTERM reached
\* the same child, and no sooner than the grace delay after it; and unless a
\* buffer exceeded the cap, no signal reaches a child before the timeoutMs of
\* the call has elapsed (checked under TimeoutSpec).
C35_SignalOrdering ==
  \A i \in 1..Len(signals) :
    /\ signals[i].sig = "SIGKILL" =>
         \E j \in 1..(i - 1) :
           /\ signals[j].sig = "SIGTERM"
           /\ signals[i].at >= signals[j].at + GraceMs
    /\ ~Overflowed => signals[i].at \div 1000 >= timeoutSec

(***************************************************************************)
(* Properties of the classifiers (checked under ClassifierSpec).           *)
(***************************************************************************)
\* the kinds of a server's rules, in the order of its if statements
RuleKinds(server) ==
  CASE server = "openai" -> <<"QUOTA_EXCEEDED", "MODEL_NOT_SUPPORTED", "AUTH_EXPIRED">>
    [] server = "gemini" -> <<"QUOTA_EXCEEDED", "AUTH_REQUIRED">>
    [] OTHER -> <<"QUOTA_EXCEEDED", "AUTH_ERROR", "MODEL_NOT_FOUND">>

\* the condition of rule k of a server, on the lower-cased text
RuleMatches(server, k, t) ==
  CASE server = "openai" /\ k = 1 ->
         Includes(t, "usage limit") \/ Includes(t, "hit your usage limit")
    [] server = "openai" /\ k = 2 ->
         Includes(t, "not supported when using codex with a chatgpt account")
    [] server = "openai" /\ k = 3 ->
         Includes(t, "auth") /\ (Includes(t, "expired") \/ Includes(t, "login"))
    [] server = "gemini" /\ k = 1 ->
         Includes(t, "quota") \/ Includes(t, "rate limit")
           \/ Includes(t, "resource_exhausted")
    [] server = "gemini" /\ k = 2 ->
         Includes(t, "authentication") \/ Includes(t, "not authenticated")
           \/ Includes(t, "login")
    [] server = "qwen" /\ k = 1 ->
         Includes(t, "quota") \/ Includes(t, "rate limit")
           \/ Includes(t, "insufficient_quota")
    [] server = "qwen" /\ k = 2 ->
         Includes(t, "authentication") \/ Includes(t, "invalid api key")
           \/ Includes(t, "unauthorized")
    [] server = "qwen" /\ k = 3 ->
         Includes(t, "model not found") \/ Includes(t, "model_not_found")
    [] OTHER -> FALSE

\* the rules of a server that match the text
MatchingRules(server, text) ==
  CHOOSE r \in {{k \in 1..Len(RuleKinds(server)) : RuleMatches(server, k, t)} :
                  t \in {toLowerCase(text)}} : TRUE

DocumentedMatches(server, k, t) ==
  CASE server = "openai" /\ k = 1 ->
         Includes(t, "usage limit") \/ Includes(t, "hit your usage limit")
    [] server = "openai" /\ k = 2 -> Includes(t, "not supported when using codex")
    [] server = "openai" /\ k = 3 ->
         Includes(t, "auth") /\ (Includes(t, "expired") \/ Includes(t, "login"))
    [] server = "gemini" /\ k = 1 ->
         Includes(t, "quota") \/ Includes(t, "rate limit")
           \/ Includes(t, "resource_exhausted")
    [] server = "gemini" /\ k = 2 ->
         Includes(t, "authentication") \/ Includes(t, "not authenticated")
    [] server = "qwen" /\ k = 1 ->
         Includes(t, "quota") \/ Includes(t, "rate limit")
           \/ Includes(t, "insufficient_quota")
    [] server = "qwen" /\ k = 2 ->
         Includes(t, "authentication") \/ Includes(t, "invalid api key")
    [] server = "qwen" /\ k = 3 ->
         Includes(t, "model not found") \/ Includes(t, "model_not_found")
    [] OTHER -> FALSE

\* the rows of a server's documented table that match the text
DocumentedRows(server, text) ==
  CHOOSE r \in {{k \in 1..Len(RuleKinds(server)) : DocumentedMatches(server, k, t)} :
                  t \in {toLowerCase(text)}} : TRUE

\* C23: the documented pattern table and nothing else.  A text that holds
\* none of the documented patterns of a server is classified null by it, and
\* a text that holds some is classified with the kind of a row that matches.
C23_DocumentedTableOnly ==
  \A id \in CallIds :
    calls[id].made =>
      \E rows \in {DocumentedRows(ServerOf(calls[id].tool), calls[id].text)} :
        IF rows = {} THEN calls[id].error = NoError
        ELSE /\ calls[id].error.isError
             /\ \E k \in rows :
                  calls[id].error.errorType = RuleKinds(ServerOf(calls[id].tool))[k]

\* the error kinds of the specification
TaxonomyKinds ==
  {"QUOTA_EXCEEDED", "AUTH_REQUIRED", "MODEL_UNSUPPORTED", "MODEL_NOT_FOUND",
   "TIMEOUT", "EMPTY_RESPONSE", "UNKNOWN"}

\* C25 as stated: every error kind a classifier produces is one of the seven
\* kinds of the taxonomy.
C25_ClosedTaxonomy ==
  \A id \in CallIds :
    calls[id].error.isError => calls[id].error.errorType \in TaxonomyKinds

\* the errorType values of a server's detectError
ErrorTypes(server) ==
  CASE server = "openai" -> {"QUOTA_EXCEEDED", "MODEL_NOT_SUPPORTED", "AUTH_EXPIRED"}
    [] server = "gemini" -> {"QUOTA_EXCEEDED", "AUTH_REQUIRED"}
    [] OTHER -> {"QUOTA_EXCEEDED", "AUTH_ERROR", "MODEL_NOT_FOUND"}

\* C25 as amended: every error kind a classifier produces is one of the
\* errorType values of its server: QUOTA_EXCEEDED, MODEL_NOT_SUPPORTED and
\* AUTH_EXPIRED for OpenAI, QUOTA_EXCEEDED and AUTH_REQUIRED for Gemini,
\* QUOTA_EXCEEDED, AUTH_ERROR and MODEL_NOT_FOUND for Qwen.
C25_ErrorTypes ==
  \A id \in CallIds :
    calls[id].error.isError =>
      calls[id].error.errorType \in ErrorTypes(ServerOf(calls[id].tool))

\* the three classifiers each produced a kind the taxonomy does not name
C25_Witness ==
  /\ calls["first"].made /\ calls["other"].made
  /\ calls["first"].error.errorType \in {"MODEL_NOT_SUPPORTED", "AUTH_EXPIRED", "AUTH_ERROR"}
  /\ calls["other"].error.errorType \in {"QUOTA_EXCEEDED", "AUTH_REQUIRED"}

C30_CaseInsensitive ==
  (calls["first"].made /\ calls["variant"].made) =>
    /\ toLowerCase(calls["variant"].text) = toLowerCase(calls["first"].text)
    /\ calls["variant"].error.isError = calls["first"].error.isError
    /\ calls["variant"].error.errorType = calls["first"].error.errorType

\* a text and its upper-case form, classified with the same kind; the reset
\* date of the message is found in one and not in the other
C30_Witness ==
  /\ calls["first"].made /\ calls["variant"].made
  /\ calls["variant"].text # calls["first"].text
  /\ calls["first"].error.errorType = "QUOTA_EXCEEDED"
  /\ calls["variant"].error.errorType = "QUOTA_EXCEEDED"
  /\ calls["variant"].error.message # calls["first"].error.message

(***************************************************************************)
(* Properties of the spawn (checked under SpawnSpec).                      *)
(***************************************************************************)
\* the argument vector of openai with the payload nowhere in it
FixedArguments ==
  {"codex", "exec", "review", "--sandbox", "read-only", "--ephemeral", "-o", "-m",
   "--uncommitted", "--base", "--commit", "-", OutputFilePath}
    \cup {m.v : m \in Models} \cup {r.v : r \in Revisions}

\* C28: no shell interpretation.  Once the executor ran, the child's stdin
\* was ended, spawned or not.  A child of gemini or qwen has the payload as
\* the one element after "-p", in a vector of exactly the elements the
\* executor built, and nothing on stdin; a child of codex has the payload on
\* stdin, byte for byte, and in no element of its vector.
C28_NoShellInterpretation ==
  rpc = "run" =>
    /\ stdinEnded
    /\ argv # <<>> =>
         /\ argv[1] = Executable(rtool)
         /\ Len(argv) = 1 + Len(ExecutorArgs(rtool, xcall))
         /\ IF ServerOf(rtool) = "openai"
            THEN /\ stdinBytes = payload.v
                 /\ \A i \in 1..Len(argv) : argv[i] \in FixedArguments
            ELSE /\ argv[2] = "-p" /\ argv[3] = payload.v
                 /\ Len(argv) \in (IF ServerOf(rtool) = "gemini" THEN {5, 7} ELSE {3, 5})
                 /\ stdinBytes = ""

\* qwen spawned with a prompt full of shell syntax as its third argument
C28_Witness ==
  /\ rpc = "run" /\ rtool = "qwen_chat"
  /\ argv = <<"qwen", "-p", "x; rm -rf ~ && echo $(id)", "-m", "qwen plus">>
  /\ stdinEnded

(***************************************************************************)
(* Properties of concurrent invocations (checked under PairSpec).          *)
(***************************************************************************)
\* C27: no shared mutable state between executor invocations.  Every event
\* (a data chunk, a timer expiry, a close, an error) of one invocation leaves
\* the buffers, the killed flag, the timers and the signals sent to the child
\* of every other invocation as they were.
C27_NoSharedState ==
  [][\E i \in Invocations : \A j \in Invocations \ {i} : inv'[j] = inv[j]]_vars

\* two invocations under way at once, each with output of its own, one of
\* them timed out and its child signalled, the other untouched
C27_Witness ==
  /\ inv["A"].child = "running" /\ inv["B"].child = "running"
  /\ inv["A"].stdout = 1 /\ inv["B"].stdout = 2
  /\ inv["A"].killed /\ inv["A"].signals = <<"SIGTERM">>
  /\ ~inv["B"].killed /\ inv["B"].signals = <<>> /\ inv["B"].timer = "armed"

(***************************************************************************)
(* Properties of a consultation of the servers (checked under              *)
(* FallbackSpec).                                                          *)
(***************************************************************************)
\* the answer is the quota failure of the member's server
QuotaFailure(member, resp, output) ==
  /\ resp.isError
  /\ detectError(member, output).errorType = "QUOTA_EXCEEDED"
  /\ resp.text = detectError(member, output).message

\* C21: when the output of the process of the member a walk is at (OpenAI,
\* Gemini or Qwen) contains "rate limit", whatever its case, the member's
\* answer is the QUOTA_EXCEEDED failure and the walk goes on to the next
\* member of its chain when there is one: it does not end with that answer
\* as a success.
C21_RateLimitFallsBack ==
  \A p \in Primaries : \A o \in produced[p] :
    Includes(toLowerCase(o[2]), "rate limit") =>
      /\ QuotaFailure(attempts[p][o[1]].agentName, attempts[p][o[1]].result, o[2])
      /\ o[1] < Len(chain[p]) => idx[p] >= o[1]

(***************************************************************************)
(* Properties of the response extraction (checked under ExtractSpec).      *)
(***************************************************************************)
RECURSIVE SplitLines(_)
\* String.prototype.split("\n")
SplitLines(text) ==
  LET nl == {i \in 1..Len(text) : SubSeq(text, i, i) = "\n"}
  IN IF nl = {} THEN <<text>>
     ELSE <<SubSeq(text, 1, Min(nl) - 1)>>
            \o SplitLines(SubSeq(text, Min(nl) + 1, Len(text)))

\* the least element of S, or none when S is empty
FirstOr(S, none) == IF S = {} THEN none ELSE Min(S)

\* the lines after the first line equal to "codex", up to the first following
\* line that starts with "tokens used"
StatedLines(q) ==
  LET m == FirstOr({i \in 1..Len(q) : q[i] = "codex"}, Len(q) + 1)
      e == FirstOr({i \in (m + 1)..Len(q) : startsWith(q[i], "tokens used")}, Len(q) + 1)
  IN SubSeq(q, m + 1, e - 1)

\* the lines after the first line that is "codex" once trimmed, up to the
\* first following line that starts with "tokens used", without the lines
\* that are "codex" once trimmed
ParsedLines(q) ==
  LET IsMarker(l) == trim(l) = "codex"
      NoMarker(l) == ~IsMarker(l)
      m == FirstOr({i \in 1..Len(q) : IsMarker(q[i])}, Len(q) + 1)
      e == FirstOr({i \in (m + 1)..Len(q) :
                      NoMarker(q[i]) /\ startsWith(q[i], "tokens used")}, Len(q) + 1)
  IN SelectSeq(SubSeq(q, m + 1, e - 1), NoMarker)

\* the file was missing or blank
NoFileText == ~xfile.exists \/ trim(xfile.content) = ""

\* C32 as stated: the response is the trimmed file content when the file is
\* not blank; otherwise the lines of stdout after a line equal to "codex" up
\* to the first following line starting with "tokens used", and the trimmed
\* stdout when there are no such lines.
C32_ExtractionAsStated ==
  xresponse.made =>
    IF ~NoFileText THEN xresponse.text = trim(xfile.content)
    ELSE IF StatedLines(SplitLines(xstdout)) = <<>> THEN xresponse.text = trim(xstdout)
    ELSE xresponse.text = trim(JoinLines(StatedLines(SplitLines(xstdout))))

\* C32, amended: the response is the trimmed file content when the file is
\* not blank, whatever stdout holds; otherwise the lines of stdout after the
\* first line that is "codex" once trimmed, up to the first following line
\* starting with "tokens used", without the further "codex" lines, joined and
\* trimmed; and the trimmed stdout when there are no such lines.
C32_Extraction ==
  xresponse.made =>
    IF ~NoFileText THEN xresponse.text = trim(xfile.content)
    ELSE IF ParsedLines(SplitLines(xstdout)) = <<>> THEN xresponse.text = trim(xstdout)
    ELSE xresponse.text = trim(JoinLines(ParsedLines(SplitLines(xstdout))))

\* the file is preferred over a stdout that has a response of its own, and a
\* stdout is parsed when the file is blank
C32_Witness ==
  /\ xresponse.made
  /\ \/ /\ xfile = FileWith("from file\n") /\ xstdout = "codex\nanswer\ntokens used: 5"
        /\ xresponse.text = "from file"
     \/ /\ xfile = FileWith(" \n") /\ xstdout = "codex\nanswer\ntokens used: 5"
        /\ xresponse.text = "answer"

(***************************************************************************)
(* Properties of the smoke test (checked under SmokeSpec).                 *)
(***************************************************************************)
\* the server answered initialize with a result and tools/list with a result
\* that lists a tool
Answered(k) ==
  /\ FindKind(tests[k].responses, 1) = "result"
  /\ FindKind(tests[k].responses, 2) = "tools"

\* the tests run one after another, and the run exits with 0 exactly when
\* every server passed
OneAfterAnother ==
  /\ \A k \in 1..(Len(tests) - 1) : tests[k].done
  /\ ~Running =>
       /\ Len(tests) = Len(tservers)
       /\ exitStatus = 0 <=> \A k \in 1..Len(tests) : tests[k].verdict = "PASS"
       /\ exitStatus \in {0, 1}

\* C33 as stated: a test ends with PASS exactly when its server answered
\* initialize with a result and tools/list with a result listing a tool; the
\* servers are tested one after another and the run exits with 0 exactly
\* when all passed.
C33_SmokeVerdictAsStated ==
  /\ \A k \in 1..Len(tests) :
       tests[k].done => (tests[k].verdict = "PASS" <=> Answered(k))
  /\ OneAfterAnother

\* C33, amended: a test ends with PASS exactly when its check ran before the
\* safety timer ended the test and the server had by then answered
\* initialize with a result and tools/list with a result listing a tool; the
\* servers are tested one after another and the run exits with 0 exactly
\* when all passed.
C33_SmokeVerdict ==
  /\ \A k \in 1..Len(tests) :
       tests[k].done =>
         /\ tests[k].verdict = "PASS"
               <=> (Answered(k) /\ tests[k].printed # "FAIL (timeout)")
         /\ tests[k].printed = tests[k].verdict
               \/ (tests[k].printed = "FAIL (timeout)" /\ tests[k].verdict = "FAIL")
  /\ OneAfterAnother

\* three servers tested, one of them failed for want of tools, and the run
\* exited with 1
C33_Witness ==
  /\ exitStatus = 1 /\ Len(tests) = 3
  /\ tests[1].verdict = "PASS" /\ tests[3].verdict = "PASS"
  /\ tests[2].verdict = "FAIL" /\ FindKind(tests[2].responses, 2) = "notools"
  /\ FindKind(tests[2].responses, 1) = "result"

PatternInOutput == MatchingRules(ServerOf(vrun.tool), vrun.out \o vrun.err) # {}

VerdictResponse ==
  CASE vrun.tool = "openai_chat" -> extractResponse(vrun.out, FileRead(vrun))
    [] vrun.tool = "openai_review" -> trim(vrun.out \o vrun.err)
    [] OTHER -> trim(vrun.out)

\* C38 as stated: the exit code does not influence the verdict.  The same
\* output gives the same verdict with every exit code and, on success, the
\* same text; a run with a non-zero exit code, a non-empty stdout and no
\* matching pattern is returned as a success.
C38_ExitCodeIgnoredAsStated ==
  /\ \A v, w \in verdicts :
       v.isError = w.isError /\ (~v.isError => v.text = w.text)
  /\ \A v \in verdicts :
       (v.code > 0 /\ vrun.out # "" /\ ~PatternInOutput) => ~v.isError

\* C38 as amended: the same, for a run whose extracted response is not
\* empty: a stdout of white space only, or a codex marker followed by blank
\* lines, is returned as the "No response" failure with every exit code.
C38_ExitCodeIgnored ==
  /\ \A v, w \in verdicts :
       v.isError = w.isError /\ (~v.isError => v.text = w.text)
  /\ \A v \in verdicts :
       (v.code > 0 /\ VerdictResponse # "" /\ ~PatternInOutput) =>
         ~v.isError /\ v.text = VerdictResponse

\* qwen_chat returned the same answer after exit codes 0 and 1
C38_Witness ==
  /\ vrun.tool = "qwen_chat" /\ vrun.out = "ok\n"
  /\ \E v, w \in verdicts :
       /\ v.code = 0 /\ w.code = 1
       /\ ~v.isError /\ ~w.isError /\ v.text = "ok" /\ w.text = "ok"

====
